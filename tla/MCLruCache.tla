----------------------------- MODULE MCLruCache -----------------------------
(* Small instances of LruCache for TLC. *)
EXTENDS LruCache
=============================================================================
