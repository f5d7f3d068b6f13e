-------------------------------- MODULE Fusion --------------------------------
(***************************************************************************)
(* Hybrid retrieval (internal/hybrid): three channels rank the same ids,   *)
(* and their lists are merged by reciprocal rank.  A channel is a sequence *)
(* of hits [id, payload]; ids are numbers in their order.                  *)
(***************************************************************************)
EXTENDS Integers, Sequences, FiniteSets, SequencesExt

CONSTANTS RRFK,     \* damping constant, 60
          MaxRank   \* the longest list of a channel

FusionAssumption == RRFK \in Nat \ {0} /\ MaxRank \in Nat

(* 1 / (RRFK + rank), in parts of the product of all of them. *)
Unit == FoldLeft(LAMBDA product, r : product * (RRFK + r), 1, [r \in 1..MaxRank |-> r])
(* Mutant: every place counts the same. *)
FlatShare(rank) == Unit \div (RRFK + 1)
Share(rank) == Unit \div (RRFK + rank)

(* An id gets a share for each place it has, in every channel. *)
Places(list, i) == {rank \in DOMAIN list : list[rank].id = i}
SumOver(S, F(_)) == FoldLeft(LAMBDA sum, x : sum + F(x), 0, SetToSeq(S))
InChannel(list, i) == SumOver(Places(list, i), Share)
Score(channels, i) == SumOver(DOMAIN channels, LAMBDA c : InChannel(channels[c], i))

Ids(channels) == UNION {{h.id : h \in ToSet(list)} : list \in ToSet(channels)}

(* The first channel that has the id gives the payload. *)
FirstHit(channels, i) ==
  LET c == CHOOSE c \in DOMAIN channels : Places(channels[c], i) # {} /\
             \A b \in 1..(c - 1) : Places(channels[b], i) = {}
  IN channels[c][CHOOSE r \in Places(channels[c], i) : \A s \in Places(channels[c], i) : r <= s]

Ranks(channels, i, j) ==
  Score(channels, i) > Score(channels, j) \/ (Score(channels, i) = Score(channels, j) /\ i < j)

UpTo(n, s) == SubSeq(s, 1, IF n < Len(s) THEN n ELSE Len(s))

RrfMerge(channels, limit) ==
  LET order == SetToSortSeq(Ids(channels), LAMBDA i, j : Ranks(channels, i, j))
      hits == [n \in DOMAIN order |->
                [id |-> order[n], score |-> Score(channels, order[n]), payload |-> FirstHit(channels, order[n]).payload]]
  IN IF limit > 0 THEN UpTo(limit, hits) ELSE hits

(* splitTerms: no term, no hit.  The search gets no limit, and then has    *)
(* one of its own, whatever k is.                                          *)
SearchLimit == 10
Structural(opts) == IF opts.terms = 0 THEN <<>> ELSE UpTo(SearchLimit, opts.structural)

(* bm25Channel: the documents with a positive score, best first, at most k. *)
Bm25(opts, k) == UpTo(k, opts.bm25)

(* vectorHits leaves out ids that are no chunk's. *)
VectorHits(raw, chunks) == SelectSeq(raw, LAMBDA h : h.id \in chunks)

(***************************************************************************)
(* Run: [repo, terms, channels (those enabled), limit, overscan,           *)
(* structural, bm25, vector (what each would answer), chunks, fails (the   *)
(* step that fails: "backend" when there is none, "embed" an index or a    *)
(* query of it)].                                                          *)
(***************************************************************************)
Or(n, default) == IF n <= 0 THEN default ELSE n
Refused(why) == [error |-> why, hits |-> <<>>]

RunFusion(opts) ==
  LET limit == Or(opts.limit, 10)
      k == limit * Or(opts.overscan, 4)
      Enabled(c, list) == IF c \in opts.channels THEN list ELSE <<>>
      structural == Enabled("structural", Structural(opts))
      bm25 == Enabled("bm25", Bm25(opts, k))
      vector == Enabled("vector", IF opts.fails = "none" THEN VectorHits(UpTo(k, opts.vector), opts.chunks) ELSE <<>>)
      failed == "vector" \in opts.channels /\ opts.fails # "none"
  IN CASE opts.query = "" -> Refused("empty query")
       [] opts.query # "" /\ opts.channels = {} -> Refused("all channels disabled")
       [] opts.query # "" /\ failed /\ opts.fails = "backend" -> Refused("nil VectorBackend")
       [] opts.query # "" /\ opts.channels \cap {"bm25", "vector"} # {} /\ opts.fails = "chunker" ->
            Refused("chunker")
       [] opts.query # "" /\ failed /\ opts.fails = "embed" /\ structural = <<>> /\ bm25 = <<>> ->
            Refused("vector")
       [] OTHER -> [error |-> "", hits |-> RrfMerge(<<structural, bm25, vector>>, limit)]

(***************************************************************************)
(* What the merge owes, from the lists alone.                              *)
(***************************************************************************)
Unique(list) == \A m, n \in DOMAIN list : list[m].id = list[n].id => m = n

(* In every channel that has j, i comes before it; one has i. *)
Dominates(channels, i, j) ==
  \A list \in ToSet(channels) : \A n \in Places(list, j) : \E m \in Places(list, i) : m < n

=============================================================================
