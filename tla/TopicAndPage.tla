---------------------------- MODULE TopicAndPage ----------------------------
(***************************************************************************)
(* A topic, which moderators and its author change (Topic), and the pages  *)
(* of the comments below it, which are read (TopicPage).  The moderators   *)
(* are the same; the rows they touch are not.                              *)
(***************************************************************************)
EXTENDS Topic

CONSTANTS Comment, ReplyTo, Writer, Reader, Guest, Trusted, PerPage,    \* TopicPage,
          MaxVisits, MaxWrites, MaxTime                   \* where Writer is its Author

VARIABLES state, stat1, lastmod, hides, expired, reader, ignores, now, writes, late,
          visit, visits, copy

Tp == INSTANCE TopicPage WITH Author <- Writer

\* The property of TopicPage, which that module states and explains.
PagesConsistent == Tp!PagesConsistent
=============================================================================
