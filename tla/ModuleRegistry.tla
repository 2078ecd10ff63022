---------------------------- MODULE ModuleRegistry ----------------------------
(***************************************************************************)
(* The registry of feature modules (crate contracts): what a run over the  *)
(* migrations of a list of modules applies.  A module is a record [name,   *)
(* migrations]; a migration's name is unique within its module only.  A    *)
(* name is the sequence of the parts that "::" separates in it: "a::b" is  *)
(* <<"a", "b">>.                                                           *)
(***************************************************************************)
EXTENDS Integers, Sequences, SequencesExt

Name == Seq(STRING) \ {<<>>}
Module == [name : Name, migrations : Seq(Name)]

\* Mutant: not checked.
UniqueNames_Unchecked(modules) == TRUE

\* ensure_unique_names: checked before anything is applied.
UniqueNames(modules) == \A i, j \in DOMAIN modules : modules[i].name = modules[j].name => i = j

\* <module>::<migration>, one string, is what the executor records: it does not
\* tell where the module's name ends.
IdOf(module, migration) == module.name \o migration

\* is_applied, or apply: an id that the executor knows is skipped.
ApplyOne(applied, id) == IF id \in ToSet(applied) THEN applied ELSE Append(applied, id)

\* The inner loop: the migrations of a module in declared order.
RunModule(module, applied) ==
  LET after[k \in 0 .. Len(module.migrations)] ==
        IF k = 0 THEN applied ELSE ApplyOne(after[k - 1], IdOf(module, module.migrations[k]))
  IN  after[Len(module.migrations)]

\* run_migrations, from what the executor has applied already: the modules in
\* registration order.
RunMigrations(modules, applied) ==
  LET after[n \in 0 .. Len(modules)] ==
        IF n = 0 THEN applied ELSE RunModule(modules[n], after[n - 1])
  IN  after[Len(modules)]
=============================================================================
