---------------------------- MODULE RelayContract ----------------------------
(***************************************************************************)
(* What every provider plugin promises of the connection it opens for one  *)
(* call: it may be dialled, lost and dialled again while the call is up,   *)
(* the handler is not released with a conversation still up, and one that  *)
(* comes up over a handler already released is hung up again.  Nobody is   *)
(* billed for a conversation with nothing on the other end.                *)
(***************************************************************************)
VARIABLES
    line,      \* the provider connection: "down", "dialled" or "up"
    released   \* the handler's aclose has returned

contractVars == <<line, released>>

ContractInit == line = "down" /\ released = FALSE

Dial == line = "down" /\ line' = "dialled" /\ UNCHANGED released

Answer == line # "up" /\ line' = "up" /\ UNCHANGED released

HangUp == line # "down" /\ line' = "down" /\ UNCHANGED released

Release ==
    /\ ~released
    /\ line # "up"
    /\ released' = TRUE
    /\ UNCHANGED line

ContractNext == Dial \/ Answer \/ HangUp \/ Release

ContractSafety == ContractInit /\ [][ContractNext]_contractVars
ContractSpec ==
    /\ ContractSafety
    /\ WF_contractVars(released /\ HangUp)
=============================================================================
