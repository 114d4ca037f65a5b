-------------------------- MODULE MCOrderedInbox --------------------------
(* Three events of a key, two of one revision, one of another key and one  *)
(* without a key, for TLC.                                                 *)
EXTENDS OrderedInbox

CONSTANTS h1, h2, k, l

Keys == <<k, k, k, l, NoKey>>
Revisions == <<1, 2, 2, 1, 1>>
=============================================================================
