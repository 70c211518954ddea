-------------------------------- MODULE Feed --------------------------------
(***************************************************************************)
(* The scraper of vids.c: for each link, update_channel lets curl append   *)
(* the feed to one arena and runs parse over it, which fills the table of  *)
(* module Channels.                                                        *)
(*                                                                         *)
(* A document is a sequence of the elements that parse tells apart; an     *)
(* element with a text is one unit with its text, the closing tag of such  *)
(* an element is never seen (parse_contents stops at its `<`).             *)
(*                                                                         *)
(* Left out: `updated` and `media:thumbnail`, which are stored like the    *)
(* fields kept, and elements cut in two by a failing transfer.             *)
(***************************************************************************)
EXTENDS Naturals, Sequences, SequencesExt

CONSTANTS
  Char, Null, AuthorCapacity, MaxAuthors, MaxEntries,  \* see Channels
  Feeds,    \* what links point to: [author, entries], author fields may be Null
  Partial,  \* whether a transfer that fails may have delivered a part
  MaxLinks  \* bound of the model: links in the feed file

VARIABLES
  channels,   \* the table
  arena,      \* what curl delivered
  pc,         \* "link" between two links, "parse" inside parse
  links,      \* links dealt with
  pos,        \* the element parse reads next
  entry,      \* the five locals of parse
  in_entry,
  author,
  in_author,
  author_id,  \* 0 for the -1 of C
  delivered   \* the feeds parsed, for the properties; the program keeps no such list

locals == <<entry, in_entry, author, in_author, author_id>>

Sv == Seq(Char) \cup {Null}

AuthorField == {"uri", "name", "published"}
EntryField  == {"id", "title", "description"}

Author == [AuthorField -> Sv]
Entry  == [EntryField -> Sv]

NoAuthor == [f \in AuthorField |-> Null]
NoEntry  == [f \in EntryField |-> Null]

sv_empty(sv) == sv \in {Null, <<>>}

author_is_valid(a) == \A f \in AuthorField : ~sv_empty(a[f])

ValidAuthor == {f.author : f \in {g \in Feeds : author_is_valid(g.author)}}
SomeEntry   == UNION {ToSet(f.entries) : f \in Feeds}

Table == INSTANCE Channels WITH AuthorAbs <- ValidAuthor, EntryAbs <- SomeEntry

(* The feeds of the site: the author is described before the entries and   *)
(* once more inside each entry.  A Null field has no element.              *)
Tags == {"author", "/author", "entry", "/entry"} \cup AuthorField \cup EntryField

Unit == [tag : Tags, text : Sv]

Tag(tag) == << [tag |-> tag, text |-> Null] >>

Element(tag, text) == IF text = Null THEN <<>> ELSE << [tag |-> tag, text |-> text] >>

AuthorElement(a) ==
  Tag("author") \o Element("name", a.name) \o Element("uri", a.uri) \o Tag("/author")

EntryElement(e, a) ==
  Tag("entry") \o Element("id", e.id) \o Element("title", e.title) \o AuthorElement(a)
  \o Element("published", a.published) \o Element("description", e.description) \o Tag("/entry")

Document(f) ==
  Element("title", f.author.name) \o AuthorElement(f.author)
  \o Element("published", f.author.published)
  \o FlattenSeq([n \in 1..Len(f.entries) |-> EntryElement(f.entries[n], f.author)])

Init ==
  /\ channels = Table!channels_create
  /\ arena = <<>>
  /\ pc = "link"
  /\ links = 0
  /\ pos = 1
  /\ entry = NoEntry /\ in_entry = FALSE
  /\ author = NoAuthor /\ in_author = FALSE
  /\ author_id = 0
  /\ delivered = <<>>

-----------------------------------------------------------------------------
(* update_channel up to its call of parse. *)
update_channel(f) ==
  /\ pc = "link" /\ links < MaxLinks
  /\ arena' = arena \o Document(f)
  /\ delivered' = Append(delivered, f)
  /\ pos' = 1
  /\ entry' = NoEntry /\ in_entry' = FALSE
  /\ author' = NoAuthor /\ in_author' = FALSE
  /\ author_id' = 0
  /\ links' = links + 1
  /\ pc' = "parse"
  /\ UNCHANGED channels

(* curl_easy_perform fails; the arena keeps what it delivered. *)
update_channel_failed(f) ==
  /\ pc = "link" /\ links < MaxLinks
  /\ \E n \in IF Partial THEN 0..Len(Document(f)) ELSE {0} :
       arena' = arena \o SubSeq(Document(f), 1, n)
  /\ links' = links + 1
  /\ UNCHANGED <<channels, pc, pos, locals, delivered>>

(* parse returns at the end of the stream, and the arena is emptied.  Its  *)
(* locals die with it.                                                     *)
Emptied_not == arena  \* mutant: the arena keeps the feed

Emptied == <<>>

parse_returns ==
  /\ pc = "parse" /\ pos > Len(arena)
  /\ arena' = Emptied
  /\ pc' = "link"
  /\ UNCHANGED <<channels, links, pos, locals, delivered>>

(* The loop of parse, one element at a time. *)
Element_is(tags) == pc = "parse" /\ pos <= Len(arena) /\ arena[pos].tag \in tags

Text == arena[pos].text

Passed == pos' = pos + 1 /\ UNCHANGED <<arena, pc, links, delivered>>

entry_field ==
  /\ in_entry /\ Element_is(EntryField)
  /\ entry' = [entry EXCEPT ![arena[pos].tag] = Text]
  /\ Passed
  /\ UNCHANGED <<channels, in_entry, author, in_author, author_id>>

Found(uri) == Table!channels_find_author(channels, uri)

Added_id_next == Len(channels.authors) + 2  \* mutant: the count in place of the index

Added_id == Len(channels.authors) + 1

Accepted_any(a) ==  \* mutant: only the uri is looked at
  ~sv_empty(a.uri)

Accepted(a) == author_is_valid(a)

(* The first entry to end after the author was described: its author is    *)
(* the author of all that follow in this call of parse.                    *)
find_author ==
  /\ in_entry /\ Element_is({"/entry"})
  /\ author_id = 0 /\ Accepted(author)
  /\ \/ /\ Found(author.uri) # 0
        /\ author_id' = Found(author.uri)
        /\ UNCHANGED channels
     \/ /\ Found(author.uri) = 0
        /\ channels' = Table!channels_add_author(channels, author)
        /\ author_id' = Added_id
  /\ UNCHANGED <<arena, pc, links, pos, entry, in_entry, author, in_author, delivered>>

\* An entry without a valid author before it is dropped.
entry_end ==
  /\ in_entry /\ Element_is({"/entry"})
  /\ \/ author_id = 0 /\ ~Accepted(author) /\ UNCHANGED channels
     \/ author_id # 0 /\ channels' = Table!channels_add_entry(channels, entry, author_id)
  /\ entry' = NoEntry
  /\ in_entry' = FALSE
  /\ Passed
  /\ UNCHANGED <<author, in_author, author_id>>

entry_begin ==
  /\ ~in_entry /\ Element_is({"entry"})
  /\ in_entry' = TRUE
  /\ Passed
  /\ UNCHANGED <<channels, entry, author, in_author, author_id>>

author_begin ==
  /\ ~in_entry /\ ~in_author /\ Element_is({"author"})
  /\ in_author' = TRUE
  /\ Passed
  /\ UNCHANGED <<channels, entry, in_entry, author, author_id>>

author_end ==
  /\ ~in_entry /\ in_author /\ Element_is({"/author"})
  /\ in_author' = FALSE
  /\ Passed
  /\ UNCHANGED <<channels, entry, in_entry, author, author_id>>

(* `published` is the author's outside of the author's element too. *)
author_field ==
  /\ ~in_entry
  /\ \/ in_author /\ Element_is({"uri", "name"})
     \/ Element_is({"published"})
  /\ author' = [author EXCEPT ![arena[pos].tag] = Text]
  /\ Passed
  /\ UNCHANGED <<channels, entry, in_entry, in_author, author_id>>

other_element ==
  /\ pc = "parse" /\ pos <= Len(arena)
  /\ IF in_entry
     THEN ~Element_is(EntryField \cup {"/entry"})
     ELSE /\ ~Element_is({"entry", "published"})
          /\ in_author  => ~Element_is({"/author", "uri", "name"})
          /\ ~in_author => ~Element_is({"author"})
  /\ Passed
  /\ UNCHANGED <<channels, locals>>

\* A step of parse.
Parse ==
  \/ parse_returns
  \/ entry_begin
  \/ entry_field
  \/ find_author
  \/ entry_end
  \/ author_begin
  \/ author_end
  \/ author_field
  \/ other_element

-----------------------------------------------------------------------------
TypeOK ==
  /\ arena \in Seq(Unit)
  /\ pc \in {"link", "parse"}
  /\ links \in 0..MaxLinks
  /\ pos \in Nat \ {0}
  /\ entry \in Entry /\ in_entry \in BOOLEAN
  /\ author \in Author /\ in_author \in BOOLEAN
  /\ author_id \in 0..Len(channels.authors)
  /\ delivered \in Seq(Feeds)

(* What the feeds delivered so far say: each author with a valid           *)
(* description and an entry, in the order of first appearance, and its     *)
(* entries in the order of delivery, whichever link they came from.        *)
Merged(list, f) ==
  LET same == {k \in 1..Len(list) : list[k].author.uri = f.author.uri}
  IN  IF ~author_is_valid(f.author) \/ f.entries = <<>> THEN list
      ELSE IF same = {} THEN Append(list, f)
      ELSE [list EXCEPT ![CHOOSE k \in same : TRUE].entries = @ \o f.entries]

Said(feeds) ==
  LET said[n \in 0..Len(feeds)] ==
        IF n = 0 THEN <<>> ELSE Merged(said[n - 1], feeds[n])
  IN  said[Len(feeds)]

(* Between two links the table reads back as what the feeds say, every     *)
(* entry with the author of its own feed; a field that the feed left out   *)
(* can read back as anything.                                              *)
TableIsWhatFeedsSaid ==
  pc = "link" =>
    LET list == Table!ReadList(channels)
        said == Said(delivered)
    IN  /\ Len(list) = Len(said)
        /\ \A k \in 1..Len(list) :
             /\ list[k].author = said[k].author
             /\ Len(list[k].entries) = Len(said[k].entries)
             /\ \A n \in 1..Len(list[k].entries) :
                  Table!List!Agrees(list[k].entries[n], said[k].entries[n])

(* parse only ever makes the calls that module Channels describes: it adds *)
(* valid authors the table does not have, and entries as the feed has them *)
(* to authors the table has.                                               *)
UsesTable == Table!Spec

(* parse expects correct XML: what it is given is one document.            *)
ParsesOneDocument == pc = "parse" => arena = Document(Last(delivered))

=============================================================================
