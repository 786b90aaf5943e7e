----------------------------- MODULE Migration -----------------------------
(***************************************************************************)
(* Upgrading the database of a service: which of the migrations a program  *)
(* knows are applied to a database of an earlier version.                  *)
(***************************************************************************)
EXTENDS Integers, Sequences, FiniteSets

\* The version numbers the program knows, and the greatest; 0 is the first.
LatestVersion(numbers) ==
    IF numbers = {} THEN 0 ELSE CHOOSE n \in numbers : \A k \in numbers : k <= n

\* A mutated form of VersionsToApply: the version of the database counts.
VersionsFromCurrent(current, numbers) == {n \in numbers : n >= current}

VersionsToApply(current, numbers) == {n \in numbers : n > current}

\* The numbers of a set in increasing order.
Sorted(S) ==
    [i \in 1 .. Cardinality(S) |->
        CHOOSE n \in S : Cardinality({k \in S : k < n}) = i - 1]

\* A database of a later version than the program knows is refused.
Reverts(current, numbers) == current > LatestVersion(numbers)

\* One service, its migrations recorded in the order they ran.
Upgraded(service, numbers) ==
    IF service.version = LatestVersion(numbers) THEN service
    ELSE [version |-> LatestVersion(numbers),
          applied |-> service.applied \o Sorted(VersionsToApply(service.version, numbers))]
=============================================================================
