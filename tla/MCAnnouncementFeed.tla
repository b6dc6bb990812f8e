------------------------- MODULE MCAnnouncementFeed -------------------------
(* AnnouncementFeed with one item that has an id and one that has none.     *)
EXTENDS AnnouncementFeed
CONSTANTS w1, w2
MCItems == {1, 2}
MCWithId == {1}
MCWorkers == {w1, w2}
=============================================================================
