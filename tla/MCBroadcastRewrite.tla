------------------------ MODULE MCBroadcastRewrite ------------------------
(* BroadcastRewrite over two local tables, two remote ones and one whose  *)
(* key type is not supported.                                             *)
EXTENDS BroadcastRewrite

CONSTANTS l, k, r, s, u, one, two, three, null

MCCast == [one |-> two, two |-> two, three |-> three]

MCTables == {l, k, r, s, u}

\* three keys exceed the cap; the tables s and u are there for their kind.
MCContents ==
  {[t \in MCTables |-> CASE t = l -> left [] t = k -> other [] t = r -> right
                         [] OTHER -> {one}] :
     left \in {{}, {null}, {one}, {one, two}, {two, null}, {one, two, three}},
     other \in {{}, {one}}, right \in {{one, two, three}, {two, null}}}

Column(t) == Key(t, "column")

On(a, b) == <<[left |-> Column(a), right |-> Column(b)]>>

Inner(a, b, on) == Join(a, b, "Inner", on, FALSE)

Pair(a, b, join) == <<Scan(a), Scan(b), join>>

MCPlans == {
  Pair(l, r, Inner(1, 2, On(l, r))),
  Pair(r, l, Inner(1, 2, On(r, l))),
  Pair(l, r, Join(1, 2, "Inner", On(l, r), TRUE)),
  Pair(l, r, Inner(1, 2, <<[left |-> Key(l, "cast"), right |-> Column(r)]>>)),
  Pair(l, r, Inner(1, 2, <<[left |-> Column(l), right |-> Key(r, "expression")]>>)),
  Pair(l, r, Inner(1, 2, <<>>)),
  Pair(r, s, Inner(1, 2, On(r, s))),
  Pair(u, r, Inner(1, 2, On(u, r))),
  \* local ones joined first; federated below a local; federated both sides
  <<Scan(l), Scan(k), Inner(1, 2, On(l, k)), Scan(r), Inner(3, 4, On(l, r))>>,
  <<Scan(l), Scan(r), Inner(1, 2, On(l, r)), Scan(k), Inner(3, 4, On(r, k))>>,
  <<Scan(l), Scan(r), Inner(1, 2, On(l, r)), Scan(s), Inner(4, 3, On(s, r))>>,
  \* an outer join above, and one between the local side and a join
  <<Scan(k), Scan(l), Scan(r), Inner(2, 3, On(l, r)), Join(1, 4, "Left", On(k, r), FALSE)>>,
  <<Scan(l), Scan(k), Join(1, 2, "Left", On(l, k), FALSE), Scan(r), Inner(4, 3, On(r, k))>> }
=============================================================================
