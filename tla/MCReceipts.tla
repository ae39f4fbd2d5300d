----------------------------- MODULE MCReceipts -----------------------------
(***************************************************************************)
(* An instance of ReceiptQueries: receipts of two requests, with and       *)
(* without "to", and a reply that cannot be parsed.                        *)
(***************************************************************************)
EXTENDS ReceiptQueries

CONSTANTS i1, i2, a

MCReplies ==
  <<[id |-> i1, from |-> a, to |-> None], [id |-> i2, from |-> a, to |-> a], Bad>>
=============================================================================
