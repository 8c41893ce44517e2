----------------------------- MODULE UpdateIds -----------------------------
(* The identifiers shared by the transaction log and the runtime store.     *)

CONSTANTS
  Attempts,     \* update attempt identifiers
  Releases      \* release identities; a candidate runtime id is a digest of
                \* the release's exact inputs, so one per release
=============================================================================
