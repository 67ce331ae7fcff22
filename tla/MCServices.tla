----------------------------- MODULE MCServices -----------------------------
(***************************************************************************)
(* The services around a run: the verifier and the sandbox that execute    *)
(* outside work, the artifact stores, the cache of signing keys and the    *)
(* replay of quotes.  They share no state, so that it is enough to check   *)
(* the behaviours in which only one of them does anything.                 *)
(***************************************************************************)
EXTENDS LeanVerifier, SandboxRunner, ArtifactStore, KeyCache, QuoteJournal, TLC

Symmetry == Permutations(Handlers) \cup Permutations(Attempts)

VARIABLE acting   \* the service of this behaviour

vars == <<leanVars, sandboxVars, storeVars, keyVars, journalVars, acting>>

MCInit ==
  /\ InitLean /\ InitSandbox /\ InitStore /\ InitKeys /\ InitJournal
  /\ acting \in {"verifier", "sandbox", "store", "keys", "journal"}
  /\ acting # "store" => medium = "local"
  /\ published = {CHOOSE k \in SigningKeys : TRUE}   \* the keys are interchangeable

MCNext ==
  /\ UNCHANGED acting
  /\ \/ /\ acting = "verifier"
        /\ NextLean
        /\ UNCHANGED <<sandboxVars, storeVars, keyVars, journalVars>>
     \/ /\ acting = "sandbox"
        /\ NextSandbox
        /\ UNCHANGED <<leanVars, storeVars, keyVars, journalVars>>
     \/ /\ acting = "store"
        /\ NextStore
        /\ UNCHANGED <<leanVars, sandboxVars, keyVars, journalVars>>
     \/ /\ acting = "keys"
        /\ NextKeys
        /\ UNCHANGED <<leanVars, sandboxVars, storeVars, journalVars>>
     \/ /\ acting = "journal"
        /\ NextJournal
        /\ UNCHANGED <<leanVars, sandboxVars, storeVars, keyVars>>

MCSpec == MCInit /\ [][MCNext]_vars
=============================================================================
