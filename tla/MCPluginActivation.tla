------------------------- MODULE MCPluginActivation -------------------------
(***************************************************************************)
(* PluginActivation with the migrations of the repository.                 *)
(***************************************************************************)
EXTENDS PluginActivation, Migrations

\* The number of migrations.
AllMigrations == Len(SurveyMigrations)

=============================================================================
