----------------------------- MODULE Migrations -----------------------------
(***************************************************************************)
(* The migrations of server/store/migrations, as the statements which the  *)
(* template helpers of templateHelperFuncs.go generate for them.  A        *)
(* statement does nothing where what it would add is there already         *)
(* (unless); it fails where what it needs is missing.                      *)
(***************************************************************************)
EXTENDS Naturals, Sequences

\* What a schema consists of.
Table(t)         == <<"table", t>>
Column(t, c)     == <<"column", t, c>>
Constraint(t, c) == <<"constraint", t, c>>
Index(t, c)      == <<"index", t, c>>

Columns(t, cs) == {Column(t, c) : c \in cs}

\* CREATE TABLE IF NOT EXISTS.
createTable(t, objects) ==
    [unless |-> {Table(t)}, needs |-> {}, adds |-> {Table(t)} \union objects,
     drops |-> {}, notNull |-> FALSE]

\* A column that may not be null and has no default cannot be added to rows.
addColumnIfNeeded(t, c, constraint) ==
    [unless |-> {Column(t, c)}, needs |-> {Table(t)}, adds |-> {Column(t, c)},
     drops |-> {}, notNull |-> constraint = "NOT NULL"]

addConstraintIfNeeded(t, name) ==
    [unless |-> {Constraint(t, name)}, needs |-> {Table(t)},
     adds |-> {Constraint(t, name)}, drops |-> {}, notNull |-> FALSE]

createIndexIfNeeded(t, c) ==
    [unless |-> {Index(t, c)}, needs |-> {Column(t, c)}, adds |-> {Index(t, c)},
     drops |-> {}, notNull |-> FALSE]

renameColumnIfNeeded(t, old, new) ==
    [unless |-> {Column(t, new)}, needs |-> {Column(t, old)},
     adds |-> {Column(t, new)}, drops |-> {Column(t, old)}, notNull |-> FALSE]

\* ALTER COLUMN ... DROP default.
dropDefault(t, c) ==
    [unless |-> {}, needs |-> {Column(t, c)}, adds |-> {}, drops |-> {},
     notNull |-> FALSE]

----------------------------------------------------------------------------
Survey    == "survey"
Responses == "survey_responses"

SurveyMigrations ==
    << << createTable(Survey,
            Columns(Survey, {"id", "excluded_team_ids", "create_at", "updated_at",
                             "start_time", "duration", "questions"})) >>,
       << createTable(Responses,
            Columns(Responses, {"id", "user_id", "survey_id", "response"})
              \union {Constraint(Responses, "single_user_response_per_survey")}) >>,
       << addColumnIfNeeded(Survey, "status", "") >>,
       << addColumnIfNeeded(Responses, "create_at", "NOT NULL") >>,
       << addConstraintIfNeeded(Responses, "unique_user_survey_response") >>,
       << addColumnIfNeeded(Responses, "response_type", "NOT NULL") >>,
       << addColumnIfNeeded(Survey, "receipt_count", "DEFAULT") >>,
       << addColumnIfNeeded(Survey, "response_count", "DEFAULT") >>,
       << addColumnIfNeeded(Survey, "detractors_count", "DEFAULT") >>,
       << addColumnIfNeeded(Survey, "passives_count", "DEFAULT") >>,
       << addColumnIfNeeded(Survey, "promoters_count", "DEFAULT") >>,
       << createIndexIfNeeded(Responses, "survey_id"),
          createIndexIfNeeded(Survey, "status") >>,
       << renameColumnIfNeeded(Survey, "excluded_team_ids", "filter_team_ids") >>,
       << addColumnIfNeeded(Survey, "team_filter_type", "NOT NULL DEFAULT"),
          dropDefault(Survey, "team_filter_type") >> >>

\* What the queries of the store name, and the constraint that refuses a
\* second response.
surveyColumns ==
    Columns(Survey, {"id", "filter_team_ids", "create_at", "updated_at", "start_time",
                     "duration", "questions", "status", "team_filter_type"})

surveyStatColumns ==
    surveyColumns \union
    Columns(Survey, {"receipt_count", "response_count", "passives_count",
                     "promoters_count", "detractors_count"})

surveyResponseColumns ==
    Columns(Responses, {"id", "user_id", "survey_id", "response", "create_at",
                        "response_type"})

StoreQueries ==
    surveyStatColumns \union surveyResponseColumns
      \union {Constraint(Responses, "unique_user_survey_response")}

=============================================================================
