------------------------------ MODULE MCCatalog ------------------------------
(***************************************************************************)
(* The catalog upgrades for TLC: three commands, any version to begin with. *)
(***************************************************************************)
EXTENDS CatalogMigration, TLC

CONSTANTS c1, c2, c3

CommandSymmetry == Permutations(Command)

AnyVersion == 0 .. CATALOG_SCHEMA_VERSION

=============================================================================
