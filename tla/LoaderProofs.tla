---------------------------- MODULE LoaderProofs ----------------------------
(***************************************************************************)
(* That the migrations of every service run once and in order, for all     *)
(* releases, however processes start, crash and fail.                      *)
(***************************************************************************)
EXTENDS Loader, FiniteSetTheorems, SequenceTheorems, TLAPS

-----------------------------------------------------------------------------
(* Versions *)

\* The latest of the versions 1 to n is n, and 0 if there are none.
LEMMA Latest ==
    ASSUME NEW n \in Nat
    PROVE  LatestVersion(1 .. n) = n
<1>1. CASE n = 0
  BY <1>1 DEF LatestVersion
<1>2. CASE n > 0
  <2>1. 1 .. n # {} /\ n \in 1 .. n /\ \A k \in 1 .. n : k <= n
    BY <1>2
  <2>2. ASSUME NEW m \in 1 .. n, \A k \in 1 .. n : k <= m PROVE m = n
    BY <2>1, <2>2
  <2> QED
    BY <2>1, <2>2 DEF LatestVersion
<1> QED
  BY <1>1, <1>2

\* The versions to apply to a database at a version the program knows.
LEMMA ToApply ==
    ASSUME NEW n \in Nat, NEW v \in 0 .. n
    PROVE  VersionsToApply(v, 1 .. n) = (v + 1) .. n
  BY DEF VersionsToApply

\* An interval in increasing order.
LEMMA SortedInterval ==
    ASSUME NEW n \in Nat, NEW v \in 0 .. n
    PROVE  Sorted((v + 1) .. n) = [i \in 1 .. (n - v) |-> v + i]
<1> DEFINE S == (v + 1) .. n
<1>1. Cardinality(S) = n - v
  <2>1. v + 1 \in Int /\ n \in Int
    OBVIOUS
  <2>2. Cardinality((v + 1) .. n) = IF v + 1 > n THEN 0 ELSE n - (v + 1) + 1
    BY <2>1, FS_Interval
  <2> QED
    BY <2>2
<1>2. ASSUME NEW m \in S
      PROVE  Cardinality({k \in S : k < m}) = m - v - 1
  <2>1. {k \in S : k < m} = (v + 1) .. (m - 1)
    OBVIOUS
  <2>2. Cardinality((v + 1) .. (m - 1)) = m - v - 1
    <3>1. v + 1 \in Int /\ m - 1 \in Int
      OBVIOUS
    <3>2. Cardinality((v + 1) .. (m - 1)) =
              IF v + 1 > m - 1 THEN 0 ELSE (m - 1) - (v + 1) + 1
      BY <3>1, FS_Interval
    <3> QED
      BY <3>2
  <2> QED
    BY <2>1, <2>2
<1>3. ASSUME NEW i \in 1 .. (n - v)
      PROVE  (CHOOSE m \in S : Cardinality({k \in S : k < m}) = i - 1) = v + i
  <2>1. v + i \in S /\ Cardinality({k \in S : k < v + i}) = i - 1
    BY <1>2
  <2>2. ASSUME NEW m \in S, Cardinality({k \in S : k < m}) = i - 1
        PROVE  m = v + i
    BY <1>2, <2>2
  <2> QED
    BY <2>1, <2>2
<1>4. Sorted(S) = [i \in 1 .. (n - v) |->
                       CHOOSE m \in S : Cardinality({k \in S : k < m}) = i - 1]
  BY <1>1 DEF Sorted
<1> HIDE DEF S
<1>5. Sorted(S) = [i \in 1 .. (n - v) |-> v + i]
  BY <1>3, <1>4
<1> QED
  BY <1>5 DEF S

\* Migrations up to v, and those after it up to n, are those up to n.
LEMMA Continued ==
    ASSUME NEW n \in Nat, NEW v \in 0 .. n
    PROVE  [i \in 1 .. v |-> i] \o [i \in 1 .. (n - v) |-> v + i] = [i \in 1 .. n |-> i]
<1> DEFINE a == [i \in 1 .. v |-> i]
           b == [i \in 1 .. (n - v) |-> v + i]
<1>1. a \in Seq(Nat) /\ b \in Seq(Nat) /\ Len(a) = v /\ Len(b) = n - v
  <2>1. a \in [1 .. v -> Nat] /\ b \in [1 .. (n - v) -> Nat]
    OBVIOUS
  <2>2. v \in Nat /\ n - v \in Nat
    OBVIOUS
  <2> QED
    BY <2>1, <2>2
<1>2. \A i \in 1 .. v : a[i] = i
  OBVIOUS
<1>3. \A i \in 1 .. (n - v) : b[i] = v + i
  OBVIOUS
<1> HIDE DEF a, b
<1>4. a \o b \in Seq(Nat) /\ Len(a \o b) = n
  <2>1. a \o b \in Seq(Nat) /\ Len(a \o b) = Len(a) + Len(b)
    BY <1>1, ConcatProperties
  <2>2. v + (n - v) = n
    OBVIOUS
  <2> QED
    BY <1>1, <2>1, <2>2, Zenon
<1>5. ASSUME NEW i \in 1 .. n
      PROVE  (a \o b)[i] = i
  <2>1. CASE i <= v
    BY <1>1, <1>2, <2>1
  <2>2. CASE i > v
    <3>1. i - v \in 1 .. (n - v) /\ (a \o b)[i] = b[i - v]
      BY <1>1, <2>2
    <3> QED
      BY <1>3, <3>1
  <2>3. i <= v \/ i > v
    OBVIOUS
  <2> QED
    BY <2>1, <2>2, <2>3
<1>6. a \o b \in [1 .. n -> Nat]
  <2>1. a \o b \in [1 .. Len(a \o b) -> Nat]
    BY <1>4, LenProperties
  <2> QED
    BY <1>4, <2>1
<1>7. a \o b = [i \in 1 .. n |-> i]
  BY <1>5, <1>6
<1> QED
  BY <1>7 DEF a, b

\* A service that went through its migrations once and in order.
Migrated(service) ==
    /\ service.version \in Nat
    /\ service.applied = [i \in 1 .. service.version |-> i]

\* A migrated service whose version is not reverted is upgraded to a migrated one.
LEMMA UpgradedMigrated ==
    ASSUME NEW n \in Nat, NEW service, Migrated(service), ~Reverts(service.version, 1 .. n)
    PROVE  /\ Migrated(Upgraded(service, 1 .. n))
           /\ Upgraded(service, 1 .. n).version = n
<1>1. LatestVersion(1 .. n) = n
  BY Latest
<1>2. service.version \in 0 .. n
  BY <1>1 DEF Migrated, Reverts
<1>3. CASE service.version = n
  BY <1>1, <1>3 DEF Upgraded
<1>4. CASE service.version # n
  <2> DEFINE v == service.version
  <2>1. Upgraded(service, 1 .. n) =
            [version |-> n, applied |-> service.applied \o Sorted(VersionsToApply(v, 1 .. n))]
    BY <1>1, <1>4 DEF Upgraded
  <2>2. Sorted(VersionsToApply(v, 1 .. n)) = [i \in 1 .. (n - v) |-> v + i]
    BY <1>2, ToApply, SortedInterval
  <2>3. service.applied = [i \in 1 .. v |-> i]
    BY DEF Migrated
  <2>4. service.applied \o Sorted(VersionsToApply(v, 1 .. n)) = [i \in 1 .. n |-> i]
    <3> HIDE DEF v
    <3>1. [i \in 1 .. v |-> i] \o [i \in 1 .. (n - v) |-> v + i] = [i \in 1 .. n |-> i]
      BY <1>2, Continued DEF v
    <3> QED
      BY <2>2, <2>3, <3>1, Zenon
  <2>5. Upgraded(service, 1 .. n) = [version |-> n, applied |-> [i \in 1 .. n |-> i]]
    BY <2>1, <2>4, Zenon
  <2> QED
    BY <2>5 DEF Migrated
<1> QED
  BY <1>3, <1>4

\* A new database is at the latest version.
LEMMA CreatedMigrated ==
    ASSUME NEW n \in Nat
    PROVE  Migrated([version |-> LatestVersion(1 .. n),
                     applied |-> Sorted(VersionsToApply(0, 1 .. n))])
<1>1. LatestVersion(1 .. n) = n
  BY Latest
<1>2. 0 \in 0 .. n
  OBVIOUS
<1>3. VersionsToApply(0, 1 .. n) = (0 + 1) .. n
  BY <1>2, ToApply
<1>4. Sorted((0 + 1) .. n) = [i \in 1 .. (n - 0) |-> 0 + i]
  BY <1>2, SortedInterval
<1>5. [i \in 1 .. (n - 0) |-> 0 + i] = [i \in 1 .. n |-> i]
  OBVIOUS
<1>6. Sorted(VersionsToApply(0, 1 .. n)) = [i \in 1 .. n |-> i]
  BY <1>3, <1>4, <1>5, Zenon
<1> QED
  BY <1>1, <1>6 DEF Migrated

-----------------------------------------------------------------------------
(* The inductive invariant.  Only a process that creates or opens the       *)
(* wallet writes a service, and one that has loaded it has the program its  *)
(* migrations came from.                                                    *)

Inv ==
    /\ program \in Programs
    /\ \E f : services = [s \in Services |-> f[s]]
    /\ \A s \in Services : Migrated(services[s])
    /\ main \in {"callbacks", "loaded"} =>
          \A s \in Services : services[s].version = LatestVersion(program[s])

\* It holds of the first state.
LEMMA InitInv == Init => Inv
<1> SUFFICES ASSUME Init PROVE Inv
  OBVIOUS
<1>1. program \in Programs /\ main = "none"
  BY DEF Init
<1>2. services = [s \in Services |-> [version |-> 0, applied |-> <<>>]]
  BY DEF Init
<1>3. Migrated([version |-> 0, applied |-> <<>>])
  BY DEF Migrated
<1>4. \E f : services = [s \in Services |-> f[s]]
  BY <1>2
<1> QED
  BY <1>1, <1>2, <1>3, <1>4 DEF Inv

\* A process that ends leaves no wallet loaded.
LEMMA ExitInv ==
    ASSUME Inv, Exit, services' = services
    PROVE  Inv'
  BY DEF Inv, Exit, Migrated

\* A new wallet is migrated.
LEMMA CreateInv ==
    ASSUME Inv, Create
    PROVE  Inv'
<1> DEFINE New(s) == [version |-> LatestVersion(Versions(s)),
                      applied |-> Sorted(VersionsToApply(0, Versions(s)))]
<1>1. services' = [s \in Services |-> New(s)] /\ program' = program /\ main' = "genesis"
  BY DEF Create
<1>2. ASSUME NEW s \in Services PROVE Migrated(New(s))
  <2>1. PICK n \in Nat : program[s] = 1 .. n
    BY BoundsAssumption, ReleasesAssumption DEF Inv
  <2> QED
    BY <2>1, CreatedMigrated DEF Versions
<1> HIDE DEF New
<1>3. ASSUME NEW s \in Services PROVE Migrated(services'[s])
  BY <1>1, <1>2
<1>4. \E f : services' = [s \in Services |-> f[s]]
  <2> DEFINE f == [s \in Services |-> New(s)]
  <2>1. services' = [s \in Services |-> f[s]]
    BY <1>1
  <2> QED
    BY <2>1
<1> QED
  BY <1>1, <1>3, <1>4 DEF Inv, Migrated

\* An opened wallet is migrated to the latest version of the program.
LEMMA OpenInv ==
    ASSUME Inv, Open
    PROVE  Inv'
<1> DEFINE New(s) == Upgraded(services[s], Versions(s))
<1>1. services' = [s \in Services |-> New(s)] /\ program' = program
  BY DEF Open, start
<1>2. ASSUME NEW s \in Services
      PROVE  Migrated(New(s)) /\ New(s).version = LatestVersion(program[s])
  <2>1. PICK n \in Nat : program[s] = 1 .. n
    BY BoundsAssumption, ReleasesAssumption DEF Inv
  <2>2. Migrated(services[s]) /\ ~Reverts(services[s].version, 1 .. n)
    BY <2>1 DEF Inv, Open, CurrentVersion, Versions
  <2>3. Migrated(Upgraded(services[s], 1 .. n)) /\ Upgraded(services[s], 1 .. n).version = n
    BY <2>2, UpgradedMigrated
  <2> QED
    BY <2>1, <2>3, Latest DEF Versions
<1> HIDE DEF New
<1>3. ASSUME NEW s \in Services
      PROVE  Migrated(services'[s]) /\ services'[s].version = LatestVersion(program'[s])
  BY <1>1, <1>2
<1>4. \E f : services' = [s \in Services |-> f[s]]
  <2> DEFINE f == [s \in Services |-> New(s)]
  <2>1. services' = [s \in Services |-> f[s]]
    BY <1>1
  <2> QED
    BY <2>1
<1>5. program' \in Programs
  BY <1>1 DEF Inv
<1> QED
  BY <1>3, <1>4, <1>5 DEF Inv, Migrated

\* Every step keeps it.
LEMMA NextInv ==
    ASSUME Inv, [Next]_vars
    PROVE  Inv'
<1>1. ASSUME NEW p \in Programs, NEW pc \in {"create", "setup"}, Begin(p, pc) PROVE Inv'
  BY <1>1 DEF Inv, Begin, disk, Migrated
<1>2. CASE Crash
  BY <1>2, ExitInv DEF Crash, disk
<1>3. CASE CreateFile
  <2>1. CASE Exit
    BY <1>3, <2>1, ExitInv DEF CreateFile
  <2>2. CASE ~Exit
    BY <1>3, <2>2 DEF CreateFile, Inv, Migrated
  <2> QED
    BY <2>1, <2>2
<1>4. CASE Create
  BY <1>4, CreateInv
<1>5. CASE InsertGenesis
  BY <1>5, ExitInv DEF InsertGenesis
<1>6. CASE OpenFails
  BY <1>6, ExitInv DEF OpenFails, disk
<1>7. CASE Open
  BY <1>7, OpenInv
<1>8. CASE Find \/ Associate
  <2>1. UNCHANGED <<disk, start>>
    BY <1>8 DEF Find, Associate
  <2> QED
    BY <2>1 DEF Inv, disk, start, Migrated
<1>9. CASE Finish
  BY <1>9 DEF Inv, Finish, disk, Migrated
<1>10. CASE LoopStep \/ ClientEnds \/ HandlerEnds
  <2>1. UNCHANGED <<disk, start>>
    BY <1>10 DEF LoopStep, Connect, Register, AssociateNow, Forget, Look, Stop, Restart,
                 ClientEnds, HandlerEnds
  <2> QED
    BY <2>1 DEF Inv, disk, start, Migrated
<1>11. CASE UNCHANGED vars
  BY <1>11 DEF Inv, vars, disk, start, Migrated
<1> QED
  BY <1>1, <1>2, <1>3, <1>4, <1>5, <1>6, <1>7, <1>8, <1>9, <1>10, <1>11
     DEF Next, MainStep

\* The services are migrated in every state that can be reached.
THEOREM Invariance == Spec => []Inv
  BY InitInv, NextInv, PTL DEF Spec

\* Open, Create and the migration manager: whatever releases ran, crashed or
\* failed in whatever order, each service went through every migration up to its
\* version once and in order, and a loaded wallet is at its program's version.
THEOREM AlwaysMigratedOnce == Spec => []MigratedOnce
<1>1. Inv => MigratedOnce
  BY DEF Inv, MigratedOnce, Migrated
<1> QED
  BY <1>1, Invariance, PTL
=============================================================================
