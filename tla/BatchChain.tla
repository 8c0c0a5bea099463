----------------------------- MODULE BatchChain -----------------------------
(***************************************************************************)
(* What the data-availability log promises whoever reads it: an            *)
(* append-only list of batches, none of them empty, each starting from the *)
(* state root where the one before it ended, the first from the zero root; *)
(* a proof is stored only for a batch of the list and is never withdrawn.  *)
(* Who appends, when, and after which crashes is left open.  Sequencer is  *)
(* shown to implement this specification.                                  *)
(***************************************************************************)
EXTENDS Naturals, Sequences

CONSTANTS ZeroRoot

VARIABLES
    log,     \* the batches, [txs, pre, post], by batch id
    proven   \* the ids of the batches that have a proof

chainVars == <<log, proven>>

EndOfChain == IF log = <<>> THEN ZeroRoot ELSE log[Len(log)].post

ChainInit == log = <<>> /\ proven = {}

\* One batch, which continues the chain, joins it; no other batch changes.
Extend ==
    /\ Len(log') = Len(log) + 1
    /\ \A i \in 1 .. Len(log) : log'[i] = log[i]
    /\ log'[Len(log) + 1].pre = EndOfChain
    /\ log'[Len(log) + 1].txs # <<>>
    /\ UNCHANGED proven

Certify ==
    /\ \E id \in 1 .. Len(log) : proven' = proven \cup {id}
    /\ UNCHANGED log

ChainNext == Extend \/ Certify

ChainSpec == ChainInit /\ [][ChainNext]_chainVars
=============================================================================
