--------------------------- MODULE Administration ---------------------------
(***************************************************************************)
(* The administration's listings and its browser console.  They share no   *)
(* variable, so a behaviour exercises one of them and leaves the other in  *)
(* an initial state: `activity' is the bound that keeps TLC from           *)
(* multiplying them.                                                       *)
(***************************************************************************)
EXTENDS Pages, Console

VARIABLE activity   \* listing, browsing

vars == <<pagesVars, consoleVars, activity>>

Init ==
    /\ activity \in {"listing", "browsing"}
    /\ PagesInit /\ ConsoleInit
    /\ activity = "browsing" => listing = "cases" /\ listed = {} /\ limit = 1
                                /\ \A r \in Rows : key[r] = 1

Next ==
    \/ activity = "listing" /\ PagesNext /\ UNCHANGED <<consoleVars, activity>>
    \/ activity = "browsing" /\ ConsoleNext /\ UNCHANGED <<pagesVars, activity>>

Spec == Init /\ [][Next]_vars

(* Every variable has its type. *)
TypeOK == PagesTypeOK /\ ConsoleTypeOK
=============================================================================
