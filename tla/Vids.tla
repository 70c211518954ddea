-------------------------------- MODULE Vids --------------------------------
(***************************************************************************)
(* vids.c as a whole: main lets load_channel_file (module LinkFile) read   *)
(* the links and call update_channel (module Feed) with each, writes the   *)
(* table to data.yt and ends; with it the page that generate_vids of       *)
(* ser_content.c makes for a server that loads this table.  How the file   *)
(* is written and read cell by cell is the subject of module Pages.        *)
(***************************************************************************)
EXTENDS LinkFile

CONSTANTS
  Char, Null, AuthorCapacity, MaxAuthors, MaxEntries, Feeds, Partial,
  MaxLinks,  \* see Feed
  FeedAt  \* link |-> the feed it leads to; other links lead to nothing

VARIABLES
  \* module Feed's
  channels, arena, parse_pc, links, parse_pos,
  entry, in_entry, author, in_author, author_id, delivered,
  \* main's
  came,     \* for each link updated, whether its transfer succeeded; for the properties
  stage,    \* "load", "written" (vids.c has ended) or "served"
  data_yt,  \* the table in the file, <<>> before it was written
  page      \* the entries of vids.html, as the text each is shown with

feed     == <<channels, arena, parse_pc, links, parse_pos,
              entry, in_entry, author, in_author, author_id, delivered>>
output   == <<stage, data_yt, page>>
vidsVars == <<vars, feed, came, output>>

Scrape == INSTANCE Feed WITH pc <- parse_pc, pos <- parse_pos

ASSUME VidsAssumption ==
  /\ Null \notin Seq(Char)
  /\ AuthorCapacity \in Nat /\ MaxAuthors \in Nat /\ MaxEntries \in Nat /\ MaxLinks \in Nat
  /\ Partial \in BOOLEAN
  /\ Feeds \subseteq [author : Scrape!Author, entries : Seq(Scrape!Entry)]
  /\ DOMAIN FeedAt \subseteq Seq(Letter) /\ \A link \in DOMAIN FeedAt : FeedAt[link] \in Feeds

VidsInit ==
  /\ Init
  /\ Scrape!Init
  /\ came = <<>>
  /\ stage = "load" /\ data_yt = <<>> /\ page = <<>>

\* load_channel_file goes on once update_channel has returned.
Loading == stage = "load" /\ parse_pc = "link"

update_channel ==
  /\ Loading /\ scan_link
  /\ Last(updates') \in DOMAIN FeedAt
  /\ Scrape!update_channel(FeedAt[Last(updates')])
  /\ came' = Append(came, TRUE)
  /\ UNCHANGED output

(* The failure of one transfer is printed; the next link is read. *)
update_channel_failed ==
  /\ Loading /\ scan_link
  /\ \E f \in Feeds : Scrape!update_channel_failed(f)
  /\ came' = Append(came, FALSE)
  /\ UNCHANGED output

channels_write ==
  /\ Loading /\ pc = "done"
  /\ data_yt' = channels
  /\ stage' = "written"
  /\ UNCHANGED <<vars, feed, came, page>>

Shown_authors(ch) == 1..Len(ch.authors)  \* mutant: one entry per author

Shown(ch) == 1..Len(ch.entries)

(* The loop over entries, whichever author they belong to. *)
generate_vids(ch) ==
  [ k \in Shown(ch) |-> [ title       |-> Scrape!Table!rsv_get(ch.text, ch.entries[k].title),
                          description |-> Scrape!Table!rsv_get(ch.text, ch.entries[k].description) ] ]

serve_vids ==
  /\ stage = "written"
  /\ page' = generate_vids(data_yt)
  /\ stage' = "served"
  /\ UNCHANGED <<vars, feed, came, data_yt>>

VidsNext ==
  \/ Loading /\ fread /\ UNCHANGED <<feed, came, output>>
  \/ Loading /\ scan_end /\ UNCHANGED <<feed, came, output>>
  \/ update_channel
  \/ update_channel_failed
  \/ Scrape!Parse /\ UNCHANGED <<vars, came, output>>
  \/ channels_write
  \/ serve_vids

VidsSpec == VidsInit /\ [][VidsNext]_vidsVars /\ WF_vidsVars(VidsNext)

-----------------------------------------------------------------------------
VidsTypeOK ==
  /\ TypeOK
  /\ Scrape!TypeOK
  /\ came \in Seq(BOOLEAN)
  /\ stage \in {"load", "written", "served"}

(* See module Feed. *)
TableIsWhatFeedsSaid == Scrape!TableIsWhatFeedsSaid

UsesTable == Scrape!UsesTable

(* See module Feed. *)
ParsesOneDocument == Scrape!ParsesOneDocument

(* The feeds of the links found that were answered. *)
Reached(found, ok) ==
  LET reached[n \in 0..Len(found)] ==
        IF n = 0 THEN <<>>
        ELSE IF ok[n] THEN Append(reached[n - 1], FeedAt[found[n]]) ELSE reached[n - 1]
  IN  reached[Len(found)]

(* From the link file to the page: vids.html shows every entry of every    *)
(* feed that a link of the file led to and whose transfer succeeded, none  *)
(* twice and none else; entries of one author stand together, authors in   *)
(* the order of their first link, however the file was cut by the buffer   *)
(* and whatever other links failed in between, as long as a transfer that  *)
(* fails delivers nothing (Partial = FALSE).                               *)
PageShowsFile ==
  stage = "served" =>
    LET found == Links(content)
        said  == Scrape!Said(Reached(found, came))
        all   == FlattenSeq([k \in 1..Len(said) |-> said[k].entries])
    IN  /\ Len(came) = Len(found)
        /\ Len(page) = Len(all)
        /\ \A k \in 1..Len(all) :
             Scrape!Table!List!Agrees(page[k], [title       |-> all[k].title,
                                                description |-> all[k].description])

=============================================================================
