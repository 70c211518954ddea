------------------------------- MODULE MCVids -------------------------------
(* Five feeds: two authors with entries, one of them at two addresses with *)
(* another name, one without entries and one whose description is not      *)
(* valid.  Entries lack a field or have an empty one.                      *)
(*                                                                         *)
(* Files: every one of up to MaxLength characters that are `a` or white    *)
(* space; and any three links that lead somewhere, one after the other.    *)
EXTENDS Vids

CONSTANTS a, b, MaxLength

MCChar == {a, b}

MCFeedAt ==
  LET A(u, n, p) == [uri |-> u, name |-> n, published |-> p]
      E(i, t, d) == [id |-> i, title |-> t, description |-> d]
      address == {<<a>>, <<b>>, <<a, b>>, <<b, a>>, <<a, a>>}
  IN  [ l \in address |->
          CASE l = <<a>> ->
                 [author  |-> A(<<a>>, <<a, b>>, <<b>>),
                  entries |-> <<E(<<a>>, <<a, a>>, Null), E(<<b>>, <<>>, <<a>>)>>]
            [] l = <<b>> ->
                 [author  |-> A(<<b>>, <<b>>, <<b>>),
                  entries |-> <<E(<<a, b>>, <<b>>, <<>>)>>]
            [] l = <<a, b>> ->
                 [author  |-> A(<<b>>, <<a>>, <<b>>),
                  entries |-> <<E(<<b, b>>, Null, <<b>>)>>]
            [] l = <<b, a>> ->
                 [author  |-> A(<<a, b>>, <<b>>, <<a>>),
                  entries |-> <<>>]
            [] l = <<a, a>> ->
                 [author  |-> A(<<b, a>>, <<b>>, Null),
                  entries |-> <<E(<<b, a>>, <<a>>, <<b>>)>>] ]

MCFeeds == {MCFeedAt[l] : l \in DOMAIN MCFeedAt}

Line(l) == l \o <<Space>>

MCFiles ==
  UNION {[1..n -> {a, Space}] : n \in 0..MaxLength}
  \cup {Line(k) \o Line(l) \o Line(m) : k, l, m \in DOMAIN MCFeedAt}

=============================================================================
