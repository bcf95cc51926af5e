--------------------------- MODULE RevisionLedger ---------------------------
(***************************************************************************)
(* What the revision numbering of one image promises to the rest of the    *)
(* factory, with no Swift container, lockfile or workflow step in sight.   *)
(*                                                                         *)
(* A ledger records which run claimed which revision number and which of   *)
(* the claims have been published as a canonical tag.  While the ledger is *)
(* sound, numbers are handed out in increasing order from one run to the   *)
(* next, each one to one run, and a revision is published once and by its  *)
(* claimant.  Break stands for the day the protocol's assumptions fail;    *)
(* from then on the ledger promises only that claims are never withdrawn.  *)
(***************************************************************************)
EXTENDS Naturals

CONSTANT Runs

VARIABLES claims,      \* set of [rev, run]: who owns which revision number
          published,   \* the claims whose image is in the registry
          sound        \* FALSE once the protocol has been disturbed

ledgerVars == <<claims, published, sound>>

Claims == [rev : Nat, run : Runs]

LedgerInit ==
    /\ claims = {}
    /\ published = {}
    /\ sound = TRUE

\* A run takes a number above every number another run has claimed.
Claim(c) ==
    /\ sound
    /\ c \notin claims
    /\ \A d \in claims : d.run # c.run => d.rev < c.rev
    /\ claims' = claims \cup {c}
    /\ UNCHANGED <<published, sound>>

\* The claimant publishes its revision, once.
Publish(c) ==
    /\ sound
    /\ c \in claims \ published
    /\ published' = published \cup {c}
    /\ UNCHANGED <<claims, sound>>

Break ==
    /\ sound' = FALSE
    /\ claims \subseteq claims'
    /\ published \subseteq published'

\* The claim made by a step is the one it leaves in the ledger.
LedgerNext ==
    \/ \E c \in Claims \cap claims' : Claim(c) \/ Publish(c)
    \/ Break

LedgerSpec == LedgerInit /\ [][LedgerNext]_ledgerVars
=============================================================================
