------------------------------ MODULE MCService ------------------------------
(***************************************************************************)
(* The service beside its ingestion path, for TLC: who may do what, what   *)
(* the receiver, the Lab and retention do to stored rows, the links to     *)
(* comparisons, the comparisons, and what brings a database to its schema  *)
(* or into another.  They meet only in the database, each in tables of its *)
(* own or before the service runs, so a behaviour explores one of them,    *)
(* chosen by the initial state.                                            *)
(***************************************************************************)
EXTENDS Access, ServiceData, Shares, SpanComparison, VariantComparison,
        Migration, CopyDatabase, TLC

VARIABLE part   \* the part that moves

databaseVars == <<migrationVars, copyVars>>
serviceVars == <<accessVars, dataVars, shareVars, spans, trials, databaseVars, part>>

ServiceInit ==
  /\ part \in {"access", "data", "shares", "spans", "variants", "migration", "copy"}
  /\ AccessInit /\ DataInit /\ SharesInit /\ SpansInit /\ VariantsInit
  /\ MigrationInit /\ CopyInit
  /\ part # "migration" => backend = "sqlite" /\ db.objs = {}
  /\ part # "copy" => source = Seeded
  /\ part # "access" => exists # Projects /\ token = [k \in Tokens |-> Unused]

Only(name) == part = name /\ UNCHANGED part

ServiceNext ==
  \/ Only("access") /\ AccessNext
     /\ UNCHANGED <<dataVars, shareVars, spans, trials, databaseVars>>
  \/ Only("data") /\ DataNext
     /\ UNCHANGED <<accessVars, shareVars, spans, trials, databaseVars>>
  \/ Only("shares") /\ SharesNext
     /\ UNCHANGED <<accessVars, dataVars, spans, trials, databaseVars>>
  \/ Only("spans") /\ SpansNext
     /\ UNCHANGED <<accessVars, dataVars, shareVars, trials, databaseVars>>
  \/ Only("variants") /\ VariantsNext
     /\ UNCHANGED <<accessVars, dataVars, shareVars, spans, databaseVars>>
  \/ Only("migration") /\ MigrationNext
     /\ UNCHANGED <<accessVars, dataVars, shareVars, spans, trials, copyVars>>
  \/ Only("copy") /\ CopyNext
     /\ UNCHANGED <<accessVars, dataVars, shareVars, spans, trials, migrationVars>>

ServiceSpec == ServiceInit /\ [][ServiceNext]_serviceVars

-----------------------------------------------------------------------------
(* Properties *)

\* No row without its run and no purge of what is recent; a complete schema
\* whenever the service runs, and a copied database only as a whole.
RowsAreKept ==
  /\ DataIsKept
  /\ [](MigrationTypeOK /\ ServedComplete /\ RevisionTruthful /\ RefusedOnlyWhereCut)
  /\ [](CopyTypeOK /\ DoneMeansCopied) /\ CopiedAtOnce

\* Spans and trials are compared with their counterparts, and consistently.
ComparisonsExact ==
  [](SpansTypeOK /\ EverySpanOnItsRow /\ VariantsTypeOK /\ VerdictIsSymmetric) /\ NeverTurnsRound

-----------------------------------------------------------------------------
(* The instance *)

CONSTANTS a1, l1, i1, p1

MCLabSource == [project |-> "p", service |-> "lab"]
MCSources == {MCLabSource, [project |-> "q", service |-> "api"]}
MCExports == {<<[run |-> l1, row |-> p1], [run |-> a1, row |-> i1]>>}

\* Users and requests are interchangeable.
MCSymmetry == Permutations(Users) \cup Permutations(Requests)
=============================================================================
