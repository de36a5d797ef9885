------------------------------ MODULE MCDesktop ------------------------------
(***************************************************************************)
(* The instance of Desktop that TLC checks.  Two of the three reports are  *)
(* needed to fill the storage.                                             *)
(***************************************************************************)
EXTENDS Desktop

CONSTANTS r1, r2, r3

\* They may arrive in any order; two have the same date.
MCCreated == r1 :> 1 @@ r2 :> 2 @@ r3 :> 2

MCSize == r1 :> 60 @@ r2 :> 60 @@ r3 :> 20

\* The service gives none; one that is no positive integer counts for nothing.
MCArguments == {-1, 0}
=============================================================================
