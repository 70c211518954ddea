----------------------------- MODULE MCChannels -----------------------------
(* A small instance of Channels: three authors, two of which share a first *)
(* character in their uri, and entries that differ in which fields they    *)
(* have, including an empty and a missing one.                             *)
EXTENDS Channels

CONSTANTS a, b

MCChar == {a, b}

MCAuthorAbs ==
  { [uri |-> u, name |-> <<b>>, published |-> <<a>>] : u \in {<<a>>, <<b>>, <<a, b>>} }

MCEntryAbs ==
  { [id |-> <<a>>, title |-> t, description |-> d] :
      t \in {<<a>>, <<b, b>>}, d \in {<<>>, <<b>>, Null} }

=============================================================================
