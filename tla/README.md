# A verification project for lorsource-rust

lorsource-rust is the server of a forum: a Rust (axum, tokio, sqlx) rewrite of
linux.org.ru that runs on the original PostgreSQL schema, with OpenSearch for
searching and a shared upload directory. Several replicas may run on one
database. This directory holds TLA+ models of the parts of it whose correctness
depends on the order in which things happen, TLC configurations that check them
on small instances, and theorems checked by TLAPS.

Paths below are relative to `src/src/` of the repository.

## 1. The system

### 1.1 Components

| component | state it keeps | operations | what makes it hard |
|---|---|---|---|
| search queue (`infra/search_queue.rs`, `search_index.rs`) | files in `pending/`, `processing/`, `failed/`; the OpenSearch documents | publish a job, claim, index, remove, requeue, reclaim after 10 minutes, quarantine | workers of several processes share the directory; crash between any two renames; rows are read before the document is written |
| comments (`routes/comments.rs`, `application/comment`, `infra/postgres/comment_deletion_repository.rs`) | `comments`, `del_info`, users' scores, `topics.stat1/stat3` | post, delete, delete with the replies, restore; the hourly recount | transactions under READ COMMITTED that count first and write later |
| realtime hub (`application/realtime`, `routes/realtime.rs`) | three maps of sessions, topics and users; a channel per socket | register, subscribe with the missed comments, announce, forward, end | the hub is told after the commit; senders are used outside of the lock |
| notifications (`routes/api.rs`, `routes/legacy.rs`, repositories) | `user_events`, `users.unread_events` | notify, take back, mark read | a cached number, kept by a trigger and by recounts |
| advertisement counters (`application/adv_counter.rs`, `bootstrap/background.rs`) | a map per process, `adv_counts` | count, take, write, restore, last flush | failing commits, shutdown |
| crash report mailer (`application/exception_reporting.rs`) | a bounded queue, an atomic number of drops, a rate window | report, mail, sum up | refused reports are counted in a second step |
| topics (`application/topic`, `routes/topics.rs`, ...) | `topics`, `msgbase`, `edit_info`, `tags`, `del_info` | post, edit, commit, move, delete, restore | checks on rows read before the transaction |
| users (`application/user`, `routes/users.rs`, `routes/auth.rs`, `routes/legacy.rs`) | `users`, `ban_info`, `user_log`, userpic files | register, activate, change, block, set a userpic | checks made before the UPDATE, a nightly job that deletes rows, files against rows |
| sessions (`auth.rs`, `routes/auth.rs`) | `users.passwd`, `token_generation`, `lostpwd`; cookies at the browsers | log in, end all sessions, change and reset a password | nothing is stored about a session: a cookie is valid as long as the row it was made from |
| pictures (`routes/topics.rs`, `application/image.rs`, `topic_edit_repository.rs`) | `images`, directories, previews | stage, post, edit, delete, clean | files take part in no transaction |
| tags (`routes/tags.rs`, the two topic repositories) | `tags`, `tags_values`, `tags_synonyms` | tag, rename, merge, delete, the hourly count | counters, unique names and the index change under other requests |
| polls and reactions (`routes/api.rs`) | `vote_users`, `polls_variants`; `reactions`, `reactions_log` | vote, edit the poll; react, withdraw | limits read outside of the transaction |
| moderators' tools (`application/warning`, `application/admin`) | warnings, blocked addresses | warn, close, delete by address; the statistics job | several commits and queue calls in a row; two rules for one number |
| scheduled jobs (`bootstrap/background.rs`) | advisory locks, external lists, Telegram posts | 15 jobs behind one FIFO gate | crash between an external effect and its record |
| pages, markup, middlewares, configuration | none of their own | functions of a request | not concurrent |

`PROJECT.json` lists thirty of them with their files, and the hazards with the
line where each bites.

### 1.2 How they interact

A request that changes a message runs one PostgreSQL transaction. After its
commit it publishes a reindex job as a file, and after that it tells the
realtime hub; both happen outside of the transaction, and a failure of the queue
is reported to the client although the change is committed. The queue's worker,
the flush of the advertisement counters and the scheduled jobs are tokio tasks
that get the shutdown signal through a watch channel. Rows are the only state
that replicas share, apart from the upload directory (spool, photos, previews).

## 2. Modules

| module | models | checked in |
|---|---|---|
| `DurableSpool` | what the search queue promises: a published job stays until it has been carried out or set aside | abstract specification of `SearchQueue` |
| `SearchQueue`, `SearchQueue_proofs` | requests that commit and publish, workers that drain and index | `MCSearchQueue` |
| `CommentDeletion`, `CommentDeletion_proofs` | comments of one topic, statement by statement | `MCCommentDeletion` |
| `RealtimeHub`, `RealtimeHub_proofs` | the hub, the requests that post and the tasks of the sockets | `MCRealtimeHub` |
| `Topic`, `Topic_proofs` | one topic's rows under edits, confirmations, deletions, restorations, moves; the proofs about `TopicAndPage` | `MCTopic` |
| `TopicPage` | what a reader of a topic sees: pages, jumps, threads, deleted comments, a browser's copy | `MCTopic` |
| `TopicAndPage` | the two above side by side: what the pages promise | `MCTopic` |
| `Lists` | which list shows a topic to whom, and who may open it | `MCTopics` |
| `ExceptionReporter` | the mailer of crash reports | `MCProcess` |
| `AdvCounter` | the counters of several processes and their table | `MCProcess` |
| `Process` | the two above side by side: what the counters promise | `MCProcess` |
| `Accounts` | registration, activation, change of address, blocks, the job that deletes inactive accounts | `MCUsers` |
| `Sessions` | passwords, cookies and reset codes of one account | `MCUsers` |
| `Images` | previews, directories and rows of one topic's pictures | `MCUsers` |
| `Users`, `Users_proofs` | the three above side by side: what each promises, and the proofs | `MCUsers` |
| `Scheduler` | sleeping tasks, the FIFO gate, failures, the shutdown | `MCJobs` |
| `Telegram` | the job that posts hot topics, on several nodes | `MCJobs` |
| `Userpics` | uploads, resets and the nightly job | `MCJobs` |
| `Jobs` | the three above side by side: what each promises | `MCJobs` |
| `Background_proofs` | the proofs about `Jobs`, `ExceptionReporter` and `Process` | |
| `Warnings` | warnings and `topics.open_warnings` | `MCModeration` |
| `Purge` | mass deletion against posting | `MCModeration` |
| `Reactions` | reactions, their log, events and limit | `MCModeration` |
| `CommentEdits` | edits of one comment and their history | `MCModeration` |
| `Moderation`, `Moderation_proofs` | the four above side by side: what each promises, and the proofs | `MCModeration` |
| `Posting` | the daily limit and the flood protectors | `MCTopics` |
| `Polls` | votes against edits of the poll | `MCTopics` |
| `Tags` | tags, synonyms, counters, the index | `MCTopics` |
| `UnreadEvents` | events and the cached number of unread ones | `MCTopics`, and alone |
| `AroundTopics`, `AroundTopics_proofs` | `Lists`, `Posting`, `Polls`, `Tags` and `UnreadEvents` side by side: what each promises, and the proofs | `MCTopics` |

`MCTopic`, `MCProcess`, `MCUsers`, `MCJobs`, `MCModeration` and `MCTopics` hold several
components that share no variable. Their product would repeat every state of one
for every state of the others and show nothing more, so they are summed: a
variable `part`, chosen at the start and constant, names the component that
moves, and the others rest in their initial states. Where a component has
several initial states, those of the resting ones are pinned to one. Each part
has its own fairness.

How state and actions correspond to the code is in the comments of each module
and, line by line, under `map` in `PROJECT.json`. What is common to all:

- *Transactions.* Where statements interleave (`CommentDeletion`, `Topic`,
  `UnreadEvents`, `Purge`, `Reactions`, `Tags`, `Warnings`, `Polls`), each statement is an action, rows have locks, and a statement
  that needs a locked row is not enabled until it is free. A statement that
  needs rows of its own snapshot after waiting (PostgreSQL reads only the row it
  updates again) is two actions: the one that takes the snapshot and the one
  that writes. Any open transaction may abort at any moment: a refused request,
  a lost connection, or the victim of a deadlock.
- *Where interleaving does not matter* (`SearchQueue`, `Accounts`, `Posting`), a
  request's transaction is one action; what it read before the transaction, and
  what follows its commit, is separate.
- *Checks before the transaction.* Most handlers read the user, the topic and
  the limits first and open the transaction later. A request therefore carries
  what it has read, and other requests act in between.
- *Exceptions of a property.* Several properties say what holds unless two
  requests overlapped, an answer was lost, or a process stopped at one certain
  point. What has happened is kept in history variables, set only by the very
  interleaving they name, so that the exception is no wider than the race.
- *Time* is abstract: ages of files, timers and the five-minute window are
  events that may happen whenever the code allows.
- *Data* is abstract: a message is a version number and whether it is hidden; a
  comment is absent, live or deleted; text, markup and dates are left out.

### 2.1 SearchQueue

`row` and `doc` are the database and the index; `pending`, `processing`, `failed`
the directories (a job is its file: a time stamp, ids, priority); `aged` the
files last modified ten minutes ago; `unsent` and `temporary` what a handler has
committed but not published. A worker goes through the phases of `vDrainQueue`
(reclaim, list, claim by rename, read the file, index topic and comments, remove
or requeue); each HTTP call and each read of rows is a step, so that a change, a
second worker or a crash may come between. `published` and `executed` are ghosts
for the refinement. Not modelled: the text of documents, the mapping of the
index, deadlines of HTTP calls (a call fails or succeeds, and OpenSearch applies
it before it returns or is given up).

### 2.2 CommentDeletion

`db` holds the committed rows, `wip` what the holder of a row's lock wrote. A
deletion reads its permission, begins, counts the replies again (author) or reads
the subtree (moderator), and then marks, charges, and inserts `del_info` comment
by comment in postorder; a restoration locks `del_info`, refunds, clears the flag
and deletes the row; a reply takes its parent `FOR SHARE`, and the trigger of its
insertion raises the counters; the recount locks the topic, counts and writes.
Events are left to `UnreadEvents`, frozen authors are the choice not to charge.

### 2.3 RealtimeHub

`session`, `topicSessions` and `userSessions` are the maps behind the hub's
mutex; every operation under the mutex is one action, the sends that follow it
are one action each. A socket's task is a loop of select branches with a
subscription in the middle of which it waits for the database. Whom a user ignores
is looked up just before each delivery (`Shown`); the model keeps it constant.

### 2.4 UnreadEvents

The rows of `user_events` and the cached number in `users`, each with a lock and
an uncommitted value. `Program` lists the statements of every kind of request; a
transaction works off that list. An id is drawn when a row is inserted, before
the trigger waits for the user's row, and survives an abort. The kinds REPLY,
WATCH and REF behave alike and are one kind.

### 2.5 Topic

`db` holds the committed rows of one topic, its text, its `del_info` and its
author's score; `new` the rows as the holders of their locks see them. An edit
opens a form (the text and the token of the last edit, by two statements),
submits it (the checks of `stSubmit` on a new snapshot), reads the row again in
its transaction, and writes text, title with history, publication and
confirmation, and the author's bonus, in the order in which it waits for rows. A
text is the set of requests that have contributed to it, so that what a write
loses can be told. Deletions and restorations are the statements of
`topic_deletion_repository.rs`; a restoration that finds no `del_info` locks
none. Moves append to the text without a row of history. `published` counts what
sets `postdate`, `awarded` the bonuses given; neither is a column. Left out:
tags, polls, images and notifications of an edit (modules of their own), the
resolved flag, options, all limits of time, and the reindex job, which is in
`SearchQueue`. What these rows mean for readers is in `Lists`.

### 2.6 TopicPage

A reader asks for a page, for all pages one after another, for a comment
(`jump_message`), for the replies below one, or for the view with the deleted
ones; a visit is a record that goes through the handler's reads: the topic's row
(`FetchTopic`), its expiry (`ReadMeta`, which may answer 304 to a guest), the
comments (`ListComments`, or `Resolve` for a jump), the ignored users (`Render`,
`JumpFilter`). Between any two of them others post, delete, restore and recount.
Writers are whole transactions, but an id is drawn before its transaction commits
(`Draw`, `Post`), and a topic is stamped with the instant its writer began at. The
pages are counted by `stat1`, which a restoration leaves too low until the hourly
recount (section 2.2). `exact`, `moved` and `late` remember that; the properties
hold up to them, and each of the three is needed. Readers do not disturb each
other, so a state has one. Left out: rendering, sorting, the windows of a guest's
cache other than the first page.

### 2.7 Lists

`t` is one topic's row, with the names of the columns that the queries ask for,
and `now` the clock. A request is checked (`Passes`) at one moment and updates the
row at another; what binds everyone is checked, what a role forbids is not, so
the model's administrator may reach every state that any user can. `Viewable`
translates `enTopicViewPolicy`, and every list is the condition of its query, as a
predicate on the row and on the one who looks. Left out: `notop`, `postscore`, the
choice of tags, the limit and order of a list, windows by activity; all of them
only shorten lists, and no property says that a list shows what they cut off.

The model made visible, and the properties name as exceptions, what readers of
the code should know: the top of the month and the list of watched topics ask
nothing about drafts (`TopBox`, `Tracked`), so a draft appears there to people who
may not open it; feeds of sections and of users, the archive, the links to the
next topic, the queue of unconfirmed topics and the galleries ask nothing about
warnings, so a guest meets links he gets 404 for; a topic that stays unconfirmed
for more than three months is on no list at all, though it stands; the number of
drafts on a profile counts deleted ones, and the archive's counts drafts.

### 2.8 AdvCounter

Processes count into maps; a worker takes the map, writes it path by path in one
transaction, commits or fails; a failed batch is merged back. A commit whose
answer is lost has been applied and is restored nevertheless (`again`). Batches are
written in the order of a hash map, so two processes may deadlock. A
shutdown signals the worker and drains the requests at the same time.

### 2.9 ExceptionReporter

`try_send` and the count of a refused report are two steps of a reporting thread;
the actor looks at the queue, folds the drops, receives (the select is biased) or
ends the window. `refused` and `stale` remember in which window a drop happened.

### 2.10 Accounts

`users` is the row of each nick together with its row of `ban_info`; `letters` are
the codes mailed, a code being determined by nick, id and address
(`verify_activation_code`). A request checks in one step and writes in another,
finding the row by its id. The daily job is one action for each `DELETE` and
holds the rows it has deleted until it commits; whoever wants one waits, and a
block that holds `users` and waits for `ban_info` is the deadlock that `Deadlock`
resolves. `auto` and `late` remember how a block without `ban_info` came about.

### 2.11 Sessions

One activated account. A word stands for a password, a salt tells one hash of it
from another, salt 0 is the old format that the first login upgrades by
`UPDATE ... WHERE passwd = <the hash it read>` and, when that finds nothing, reads
again. A cookie is the identity it was made from. A reset code is a moment in
`lostpwd`; the letter leaves before the moment is stored. `dead` and `void`
collect what has been ended.

### 2.12 Images

A request stages previews, looks at the rows, makes directories inside its
transaction and commits. The destructor of the rollback guard removes them unless
the commit has answered; `CommitUnanswered` is a commit that was applied although
no answer came (a lost connection, or a handler dropped while it waits), `Crash`
the end of the process before the destructor ran. Deletion of a picture checks
that a gallery keeps one, by rows and files, before its transaction. `Clean` is
the job that removes the parts of old previews one after another.

### 2.13 Scheduler, Telegram, Userpics

`Scheduler`: every task sleeps for itself (a fixed delay after its last run, or
until the next instant of its cron expression, computed from the present),
enters the FIFO gate, runs alone, succeeds or fails, and looks at the shutdown
signal when it sleeps. The wall clock is a day of a few ticks; a sleeper may wake
late. Tasks that do not end within fifteen seconds of the shutdown are aborted.
`Telegram`: a session-level advisory lock on a connection of the pool, the query
for a hot topic or a bad row, HTTP (direct, then by proxy: a request may have
been carried out without an answer), the row. A fault may hit any of these.
`Userpics`: a file is written before the row names it; the job reads rows,
directory and log at different times and removes files older than an hour.

### 2.14 Warnings, Purge, Reactions, CommentEdits

`Warnings`: the checks (hourly limit) come first; the row is inserted or closed,
and the topic is recounted by one UPDATE whose count is taken before it waits
(`Recount`, `WriteCount`). The statistics job counts anew where the number is not zero,
also before it waits (`JobCount`, `JobWrite`), and leaves out any complaints that are older than
twelve hours or whose authors have a low score by then: which these are comes from
outside. `left` holds the complaints that the number of the moment leaves out,
`missed` that it was counted too early.
`Purge`: `Poster`s check, share the parent, insert, and commit with the trigger's
lock on the topic; `Mod`s block (the user or the address, in a transaction of its
own for an address), lock topics and comments, and delete newest first what has
no live reply. PostgreSQL may abort any of them.
`Reactions`: the limit, then target, topic and author's row, locked in this
order, against the deletion of the comment.
`CommentEdits`: the text is read with the form's checks and recorded in the
history by the transaction, which takes the row of the text first.

### 2.15 Posting, Polls, Tags

`Posting`: the daily limit is read first; the flood protector is a map behind an
async mutex, and its instant is taken before the mutex is waited for. What it
removes (`retain`) it removes of all addresses: also what came after its own
instant, and what is too old for it though not for somebody stamped before who
still waits. `dropped` notes both, since the next message of that address may
then pass before its time. The author is neither moderator nor corrector, and his limit is a
constant; it is read for one section. A draft enters the day when it is published: by
its author, who is checked before the transaction (`LookAtDraft`, `Publish`), or by the hand of
an editor who publishes or confirms it and has no limit (`EditorPublishes`). Restorations
and moves (`Restore`, `Move`) bring a topic into a section's day as well; `excess` names the topics
that came in past the check.
`Polls`: `already_voted`, the variants, a row for each; the edit deletes variants
and is stopped by the foreign key when somebody voted for one.
`Tags`: edits (names to ids, lock, rows, raised counters), posts (rows, counted
counters), renames (queued before the commit), deletions and merges (count, copy,
clear, raise, synonym, delete; queued after the commit), the queue with its
failures, the indexer, and the hourly job (`Sweep`, `SweepCommit`), which writes for each
tag the topics it counted before it waited for the rows, without those that are
deleted or not confirmed: `unseen` holds the rows it left out. A rename is two statements: the
first deletes the synonym it finds (`RenameClear`), and one committed later stays beside the tag;
edits of one topic overlap, since none locks it. `stale`, `short` and `twins` name what is left behind
by the interleavings the properties except.

## 3. What the runs check

| run | module | expectation | shows |
|---|---|---|---|
| `search_one` | SearchQueue | pass | a request beside the worker: every job served at least once, stale documents are accounted for, refinement of `DurableSpool`, convergence under fairness |
| `search_claim` | SearchQueue | violation | the drain's claim that a job is processed by one worker at a time fails after ten minutes |
| `comment_races` | CommentDeletion | pass | four requests, three at once, on a comment, its reply and the reply to that: the pairing with `del_info`, penalties refunded once, the counter, no reply to a deleted comment |
| `realtime_hub` | RealtimeHub | pass | the maps agree; no comment committed after the subscription is missed; missed, live and refresh messages arrive |
| `unread_unseen` | UnreadEvents | violation | an event not on the page is marked read |
| `topic_rows` | MCTopic | pass | three requests of any kind on one topic: `del_info`, refunds, one publication, the section of a confirmed topic, the history of the text; a reader beside writers: jumps land, a walk misses nothing, a browser's copy is current, ignored authors stay hidden |
| `topic_token` | MCTopic | violation | a form opened while an edit commits passes the check of the last edit and overwrites it |
| `process` | MCProcess | pass | counts are conserved over failures, two processes and shutdown, and reach the table; dropped and skipped reports are summed up |
| `users` | MCUsers | pass | accounts: blocks and `ban_info` stay paired, addresses are confirmed, the job deletes what it should and nothing activated; sessions and reset codes end for good; pictures have files and files have pictures, the limits and the history hold, previews go |
| `jobs` | MCJobs | pass | tasks recur as scheduled and end at the shutdown; Telegram posts are not repeated and are taken down; photos have their files and old files go |
| `moderation` | MCModeration | pass | the number of open warnings beside the job that recounts it by another rule, purges that leave no orphans and exact counters, reactions that match their log and wait for each other in no circle, a history of comments without gaps |
| `topics` | MCTopics | pass | who finds a topic where and may open it, counts that match their pages, limits and the flood protector, votes that are counted once and stay, tags whose names, counters and index agree, the cached number of unread events exact after whoever runs alone |

A property of a run that names a component (`PicturesConsistent`, `DecisionsStand`,
...) is the conjunction of the properties of that component, each with a name, a
comment and a definition of its own in the component's module:

| property | conjuncts |
|---|---|
| `QueueDrains` | `JobsAreServed`, `IndexConverges` |
| `NeverOvercounted` | `NeverOverpaid`, `CountNotOver` |
| `TopicConsistent` | `DeletedIffInfo`, `NeverOverpaid`, `PublishedOnce` |
| `PagesConsistent` | `JumpLands`, `WalkSeesAll`, `CopyIsCurrent`, `IgnoredStayHidden` |
| `ListsConsistent` | `ListedIsViewable`, `NothingIsLost`, `OnceOnGroupPage`, `DeletedIsFound`, `CountsMatch` |
| `AllIsDelivered` | `MissedIsDelivered`, `LiveIsDelivered`, `RefreshIsDelivered` |
| `CountsAreAccounted` | `CountsAreConserved`, `OnlyLateCountsAreLost` |
| `TasksCatchUp` | `SkippedAreSummarized`, `CountsArePersisted` |
| `AccountsConsistent` | `BanExplained`, `AddressConfirmed` |
| `SettledStands` | `KeepsActivated`, `KeepsStaged`, `KeepsPassword` |
| `CredentialsEnd` | `SessionsEnd`, `CodesEnd` |
| `PicturesConsistent` | `RowsHaveFiles`, `NoOrphans`, `DeletedIsRecorded`, `GalleryKeepsOne`, `WithinLimit` |
| `CleanupsFinish` | `InactiveAreDeleted`, `PreviewsGo` |
| `ChannelConsistent` | `NoRepost`, `OnRecord` |
| `PhotosStay` | `PhotoHasFile`, `LoggedStays` |
| `JobsGoOn` | `Recurs`, `ShutdownEnds`, `TakenDown`, `OldAreRemoved` |
| `WarningsConsistent` | `OpenWarningsExact`, `HourlyHolds` |
| `PurgeConsistent` | `NoReplyToPurged`, `StatExact`, `Survivors` |
| `ReactionsConsistent` | `LogMatches`, `SeldomEnough`, `UnreadStands`, `NoCircle` |
| `HistoryConsistent` | `EditCountExact`, `TextsKept` |
| `DecisionsStand` | `KeepsWarnings`, `SparesTheAnswered`, `ChangesUnanswered` |
| `PostingLimited` | `DailyLimit`, `Apart` |
| `VotesConsistent` | `VotesAreRows`, `OneVoteEach` |
| `TagsConsistent` | `NamesOnce`, `NotShort`, `IndexedRight` |
| `StepsHold` | `KeepsVotes`, `KeepsExact`, `RecountsExactly` |

Each of the invariants has the component's type invariant for its first conjunct.

The violations are disagreements between a comment, a form or a test of the
repository and what the code does; each is listed under `findings` with the line
it quotes.

### 3.1 Bounds, and why they are enough

- *Two handlers, and three for comments.* The races known for these statements
  need two transactions, and a third to hold the row they meet on.
- *Comments:* three levels, for the postorder and the penalties by level; four
  requests, so that one may follow three that overlapped: three overlap in any way,
  the fourth begins beside one of them at most. The penalty 7 lies
  above the threshold of 2, from which replies are charged too; frozen authors
  give the penalty 0.
- *Search:* one topic with one comment covers deep jobs; two versions make a
  document stale once and repaired once; one fault lies anywhere. Several
  handlers and several workers on one directory are covered by the proofs, which
  hold for any number of each.
- *Realtime:* two sessions, one of them anonymous, and two topics, so that a
  message may go to the wrong one; one comment that may be committed before the
  subscription, within or after it.
- *Events:* two users, who are symmetric, two events (three in `unread_unseen`) and three
  requests, the last alone: two insertions and a
  mark, or an insertion, a render and a mark.
- *Accounts:* an account that is there and a nick that is free, three addresses,
  three requests, two at a time: a check, what overtakes it, and what follows.
- *Sessions:* five requests, two at a time, the last alone: a login in the old format, a
  reset with its letter, and a change between them; words and salts as many as are drawn.
- *Images:* a limit of two, two previews, three images, one fault: a fault among
  pictures within the limit, or a picture above it and none.
- *Scheduler:* one task with a delay, two with instants (one of them twice a day);
  a day of six ticks wraps round. *Telegram:* two nodes, two topics, three
  messages, one fault. *Userpics:* two users, four files.
- *Moderation:* two requests at a time, which are symmetric, as are the two authors
  of warnings; three warnings (two
  beside the statistics job) with an hourly limit of one; three comments in two topics and one purge, of a user or
  of an address, while strangers answer what it takes (what else they write it does
  not look at); three reactions of two users with a limit of one in ten minutes;
  three edits among three texts. A limit of one is reached by the requests there
  are; the code's are 5.
- *Posting:* two addresses, since a request of one removes the other's instants, and
  requests and addresses are symmetric; three requests, two at a time, two topics of which
  one may come to be excepted, two sections, the slow mode only for comments;
  waits of one and two ticks, a memory of two, a day of one, a clock that goes on
  for two ticks after the first day. A behaviour asks the cache of comments from both
  addresses, or that of topics from one: the caches share no state, and the daily limit
  is the author's, from any address. *Polls:* two users, who are alike (one request is
  the first one's, the other is anybody's), three variants, two ballots. *Tags:* two
  topics, three names of which one is free, three ids, two requests: each pair of
  operations meets in every order; and a third request beside a rename that has passed its
  first statement and whose name another tag has by then, which makes the synonym it leaves.
- *Topics:* three requests, each of any kind: two are under way at a time, and the third
  comes before, between or after them; one group in the topic's section, one in
  another section without links; one penalty, one bonus; an author, a moderator
  and a corrector. Requests are symmetric. A user told twice that the topic was
  edited gives up.
- *Pages:* one comment on a page, three comments of two authors, of which one answers
  another; at the beginning at most one is deleted and any number is still to come, for
  the guest the answer. A topic that hides its comments is read by moderators, to
  others it is empty.
  A guest opens pages three times (for a copy, its revalidation, and its use) while
  the clock goes from 0 to 3, two seconds, so that two changes may fall into one second
  or into two; the users who are logged in come once, for anything, at one
  instant, since time matters to copies alone. Two writes fall between.
- *Lists:* a group in a premoderated section with links by section, one in the gallery, one in
  the forum; two requests at a time; a clock of three ticks with intervals of one
  and two, so that each interval is below, met and exceeded; eleven kinds of viewers: guest, author, moderators, a corrector, and
  users on either side of both scores, restricted or ignoring the author.
- *Counters:* two processes and two paths, three counts, so that one batch holds
  both paths and the other meets it at either, one failure.
- *Reports:* a queue of three with a limit of three keeps the code's relation
  (128 and 5: the queue holds no fewer reports than the limit), eight reports fill
  the queue, overflow it and begin a second window.

`CHECK_DEADLOCK FALSE` is set where the bounds (requests, counts, reports, ids) let
the system stop. The parts without fairness (`MCModeration`, `MCTopics`) have
safety and action properties only.

### 3.2 Fairness, and why the code justifies it

- `SearchQueue`: the worker's steps and the sender's are weakly fair: the loop
  never ends while the process runs, and a process that died is started again.
  Calls fail a bounded number of times. A job that OpenSearch always refuses is
  put back under its name and would stay first; the liveness properties do not
  speak of it, and the hazard is listed.
- `RealtimeHub`: requests that post and tasks of sockets are scheduled by tokio;
  forwarding assumes that the client reads or its socket ends.
- `AdvCounter`: the worker's timer fires and its statements return. Two batches
  that wait for each other's paths are a deadlock, of which PostgreSQL aborts
  one; the statements are strongly fair, since a released row is given to the
  transaction that waits for it.
- `Accounts`, `Images`, `Userpics`: the jobs recur (which `JobsGoOn` shows of the
  scheduler) and files and accounts age. The job that removes userpics does so only with
  `CLEAN_OLD_USERPICS`, which is off by default (`config.rs`): `PhotosStay` and `OldAreRemoved`
  are about a server that has it on.
- `Scheduler`: the clock ticks and every task that can move does; a callback ends,
  with success or an error: statements and HTTP requests have deadlines
  (`state.rs` gives the HTTP client ten seconds).
- `Telegram`: the nodes' tasks run; faults are bounded.
- `ExceptionReporter`: the actor runs and mails end. The select is biased to
  reports, so the window ends only when there are none for a moment: under an
  endless flood it would not end. The model's reports are bounded.

## 4. What is proved

All theorems hold for every value of the constants that satisfies the modules'
assumptions.

| theorem | establishes |
|---|---|
| `SearchQueue_proofs!TypeCorrect` | every state of the queue is well formed |
| `SearchQueue_proofs!JobsAreNotLost` | a published job is in the spool, was carried out, or was set aside |
| `SearchQueue_proofs!SpoolImplementsPromise` | the queue implements `DurableSpool` |
| `SearchQueue_proofs!StaleStaysAccounted` | while one process drains the spool, a document differs from the database only as long as a handler, a job or the worker accounts for it, or an enqueue has failed |
| `CommentDeletion_proofs!TypeCorrect` | rows, locks and requests are well formed |
| `CommentDeletion_proofs!DeletedHasInfo` | a comment is marked deleted exactly when its `del_info` exists |
| `CommentDeletion_proofs!RepliesAreToLive` | no reply is committed under a deleted comment |
| `CommentDeletion_proofs!NothingIsOvercounted` | no author keeps more than the penalties in force leave him, however restorations overlap, and the topic's counter never promises more comments than are live |
| `Background_proofs!TypeCorrect` | the reporter's states are well formed |
| `Background_proofs!DropsAreReported` | the window's own drops are summed up at its end |
| `Background_proofs!CountsStayAccounted` | what was counted is in a map, a batch, the table, or was lost with its process; only late counts are lost at a shutdown |
| `Background_proofs!RunsStayScheduled` | one job runs at a time, a cron task at most once for each of its instants |
| `Background_proofs!ChannelStaysConsistent` | a topic is sent once and is on record, but for the failures there were |
| `Background_proofs!PhotosAlwaysStay` | whoever has a picture has its file, and what the log names is there |
| `AroundTopics_proofs!ListsAgree` | what a list shows may be opened, what stands is found, counts match their pages |
| `Topic_proofs!TopicStaysConsistent` | a topic is deleted exactly when its `del_info` exists, a penalty is taken back once, a topic is published once |
| `Topic_proofs!ConfirmationStays` | a confirmed topic stays in its section, a confirmation is not taken back by anything but its own operation |
| `Topic_proofs!RemovedTextIsRecorded` | a step that takes text away puts what it had read into the history |
| `Topic_proofs!PagesStayConsistent` | a jump lands on its comment's page, a walk misses nothing, a browser's copy is what the page shows, the ignored and all below them stay hidden, but for the disturbances named |
| `RealtimeHub_proofs!HubStaysConsistent` | the hub's three maps agree with each other and with the tasks that are alive |
| `RealtimeHub_proofs!NothingLiveIsLost` | a comment committed after a subscription reaches the subscriber once its request has told the topic |
| `Moderation_proofs!HistoryStaysConsistent` | the history of a comment is numbered, counted, and keeps each text that was read |
| `Moderation_proofs!ReactionsStayConsistent` | reactions and their log agree, events stand, limits hold but for overlaps, no circle of two |
| `Moderation_proofs!WarningsStayConsistent` | the topic's number of open warnings is exact, but for what the statistics job has left out and for a recount that waited; the hourly limit holds but for overlaps |
| `Moderation_proofs!PurgesStayConsistent` | purges leave no orphan, counters are exact, what is left had a reply or was not seen |
| `Moderation_proofs!WhatWasDecidedStands` | no step reopens a warning, deletes an answered comment, or edits one unseen |
| `Users_proofs!AccountsStayConsistent` | blocks are explained, addresses are confirmed by a mailed code |
| `Users_proofs!CredentialsStayEnded` | an ended session or reset code is never accepted again |
| `Users_proofs!PicturesStayConsistent` | rows have files, directories have rows, the gallery keeps its limits, but for the races and failures named |
| `Users_proofs!SettledStays` | no step deletes an activated account, drops a waiting address, or brings back a replaced password |
| `AroundTopics_proofs!PostingStaysLimited` | the daily limit of each section and the flood protector hold, but for the overlaps, restorations, moves, editors' publications and removals named |
| `AroundTopics_proofs!VotesStayConsistent` | each counter is the number of its votes, a user has several only by one ballot or by overlapping requests |
| `AroundTopics_proofs!VotesAreKept` | no step, and no edit of the poll, takes a vote back |
| `AroundTopics_proofs!TagsStayConsistent` | a name is one tag's, a tag is counted for the topics that have it and were seen by the last count, documents have their topics' tags, but for the races and failures named |
| `AroundTopics_proofs!StepsAlwaysHold` | besides, a transaction that nothing overlaps keeps an exact number of unread events exact, and repairs one that it recounts |

*The search queue.* `AtLeastOnce` is not inductive: the worker's registers matter.
The strengthening `SpoolInv` says that a job in a temporary file is not published
yet and shares its stamp with no other, that a worker holds only a published job,
and that one whose file it is about to remove has been carried out.
The refinement then follows step by step: publishing is `Publish`, the completion
of a job is `Serve`, the removal `Retire`, the quarantine `SetAside`, and all else
stutters.

*The index.* `StaleIsAccounted` names four who may account for a document that
differs from the database. `StaleInv` adds what makes this survive every step of
the worker: its list, what it has in hand and the file it holds belong to the same job
(`WorkSound`), so that a job given up after a failure or a crash announces anew all that
the worker still owed; and what it has read is either still current, or somebody
was told since, because a commit announces every message whose document depends on the
rows it changes (`CommitStale`). A topic's first job goes without its comments; that is
enough because no comment's row is there before its topic's (`RowsSound`). The hypothesis is
`OneWorker`: one process drains the spool, as in the run `search_one`. It is needed:
with two, TLC finds that each carries out a job about the same message, and the one
that has read the older row writes last.

*Comments.* The pairing of the flag with `del_info` is broken inside every
transaction and restored before its commit. The invariant `CommentInv` therefore
follows a transaction through its phases (`PairInv`): which of the rows it holds,
and what it has written to them. A comment's row, taken by the first UPDATE of
either operation, excludes the other one, also while `del_info` does not exist
yet and cannot be locked. For replies (`ReplyInv`) it says that a comment shared by
a transaction is locked by no other, that a reply about to be inserted has its
live parent shared, and that a row inserted and not committed belongs to exactly
one request. A commit then finds the parent as the check left it.

*Scores and the counter of comments.* `NeverOverpaid` bounds a score by a sum over all
comments, of which a transaction changes several before it commits. `ScoreInv` says that
the score and the sum of the penalties in force are at most zero together (`Solvent`), and
that what a transaction gives an author, what it changes of the penalties, and what its
next statement is still to change add up to no gain for him (`PaidInv`): a refund is at
most what the `del_info` it has locked has charged. The sum a commit leaves is the
committed one and that of the changes. `CountInv` follows the topic's row, which all but
the recount lock last: from then on what is counted is at most the comments that will be
live after the commit (`Settled`), and whoever has not locked it commits nothing about a
comment.

*Crash reports.* A drop of the current window is waiting to be counted, pending,
or folded; as long as there is one, the reports counted in the window and those
still in the queue together are at least the queue's capacity at the moment it
refused, and so at least the limit.

*Counters.* Memory is a sum over processes, and the invariant (`CountersInv`) says that
each path's table, this sum and what was lost are what was counted and what was written
again (`Conserved`); a step changes one process, hence one term. For the shutdown
it says that what a process counts after its worker has taken the last batch, and what is
lost already, is together at most what came late (`LateIsLost`), and that a worker
takes its last batch only after the signal (`EndsSound`).

*The jobs.* A cron task may run only for an instant that it has slept until and not
used yet, so `ScheduleInv` follows the sleep: as long as one lasts, its end falls on an
instant of the task, and a task that has woken up or waits at the gate has one to its
credit (`CronSound`). That there is an instant ahead, at most a day away, whatever the
time is, is a lemma about `UntilNext` (`InstantComes`). The order at the gate does not
matter for this, only that whoever leaves it leaves the others where they are.

*Telegram.* A topic that was sent is on record, or in the hands of the node that holds the
lock, or was forgotten on purpose, or a failure has cost the record (`SendsCounted`): each
send uses up the one allowance, because the row is looked for under the lock (`InHand`).
The messages without a row are counted the same way: a step leaves at most one more, and
only one that is a failure (`Unrecorded`).

*Userpics.* `PicsInv` says of an uploaded file that it is young, in no log and nobody else's
as long as the request lasts (`Uploading`), and of what the job is about to remove that it is
old and was nobody's when the job read the rows. Whoever has got a picture since has got it
by a statement that also writes the log (`Cleaning`), which the job reads later. Hence
what it removes is nobody's, without a lock.

*Lists.* The properties speak of one row and of all queries, each of which asks for
one of two columns that ought to agree. That they do is the invariant (`ListInv`):
a topic is confirmed exactly when it has a commit date, a confirmed topic is no
draft, and it is deleted exactly when it has a deletion date. With it each query is
compared with `Viewable`, for every viewer, section and clock.

*Topics.* `DeletedIffInfo` holds of committed rows and is broken in the middle of a
transaction. `TopicInv` therefore says which row each request holds at which
statement (`Holds`), what a deletion or restoration has done so far (`Removes`,
`Restores`: the topic's row is held from the first UPDATE on, and `del_info`'s row
whenever there is a penalty to give back), and that the rows as a request would
commit them now are sound. A topic that has been published is no draft and was
published once, in the committed rows and in those being written (`Fresh`). For the
two action properties it follows a confirmation from the row it has locked to its
commit (`Confirms`), and a new text to the row of history that takes the old one
(`Records`).

*Pages.* A visit reads the list of comments once and its reader goes through the pages
later, so each property compares two lists. As long as nothing was deleted or came out of turn
between them, the second begins with the first (`Begins`: what is added is younger than all that was
there). Then a comment keeps its number and its page (`PageStays`), and what is hidden of
the first list is what is hidden of the second, cut to the first (`HiddenStays`).
`PageInv` follows a jump from the comment it resolved to the page it was
sent to (`Jumps`); it says of a walk that what stood at its start, and is on the
pages behind it, was shown or is hidden, and that pages are left for all the rest (`Walks`); that
what a visit holds back is all that its reader ignores (`Spared`); and of the browser's copy that
its stamp is either the topic's, and then it is of the same rows, or of an
earlier second (`Copied`, `Follows`), which `late` excepts. Whatever is below a hidden comment is defined
by a recursive function, step by step; that it is the least set closed under
answers (`BelowIsLeast`) needs the ids to be drawn in order: each step
leads to younger comments, of which there are finitely many (`DescentEnds`).

*The hub.* The maps are only touched under the mutex, but a socket's task lives
between its calls. `HubInv` says that a session is in the maps exactly while its
task lives, and that `topicSessions` and `userSessions` are the inverse images of
the sessions. With this `NoLiveGap` is inductive: a
request that posts asks for the subscribers after its commit, so that of a comment
committed after a subscription the session is among the targets, and is one until
the message is in its mailbox or its task has ended. A comment committed and announced between
the reading of the missed comments and the subscription reaches the session in
neither way; the property does not speak of it (`since` is taken at the subscription).
The proof of `ById`, which puts missed comments in order, needs the existence of an
order for every finite set of ids.

*Edits.* Who holds the comment's row is about to commit, and a request that has
read it either has its present text or has been noted to be late (`UpToDate`).
The rows of the history have the ids from one to their number, which is the count
in the comment; both are written under the same lock.

*Reactions.* A request locks the message, the topic and the author's row in this
order and keeps them to its commit (`RowsHeld`), and no two hold the same row
(`RowsApart`). Hence no circle: a request that waits for a row holds only rows that
come earlier. The limit is read before the locks: a request that has passed the
check still stands below it, unless another of the same user has overlapped and
the user has been noted (`WithinLimit`). Nobody reacts to his own message, so the
author's row is nobody's reaction (`NotOwn`).

*Warnings.* The number in `topics` is a recount within the transaction that changes
a complaint, and is exact because the topic's row is held from the recount to the
commit by whoever changes complaints and by nobody else (`RowTold`): another commit
in between leaves the complaints as they are. The statistics job writes only when nobody
holds the row; what it leaves out is part of the property (`left`), and whether what it
counted still stands is noted when it writes (`missed`). A request's recount ends both. Ids belong to one warning, also those
not committed (`Identified`). The hourly limit is read before the transaction: the
warnings of the hour and the requests on their way together stay below the limit
plus the number of requests (`Limited`), counted with the library's lemmas on
finite sets.

*Purges.* A purge deletes comments one by one, answers first, and lowers the
counters at its end. `PurgeInv` says that a comment that somebody is answering is
live and locked by no purge (`HeldApart`); that what a purge has deleted is closed
under live answers and that its counters are lowered by exactly that (`Counted`); and
that with an answer of the culprit it has found also what is answered, if that is
the culprit's (`Found`). From the last it follows that the answer for which one
purge has spared a comment is not deleted by another. The run has one moderator;
the theorem holds for any number.

*Accounts.* A request acts on what it read before its transaction, and the job
between its statements holds rows that everybody else still sees. `AccountsInv` says
that what a request carries names an account of the past or of now, never one that
is still to come, because ids only grow (`OldIds`, `Checked`): hence an activation
that comes after the deletion and a new registration of the nick finds no row. A
code checked for an activation is for the present address as long as the account
is the same. `JobSound` says what the job's locks are worth: the rows of `users` it
has deleted are of accounts nobody activated, and where at the commit only the row
of `ban_info` goes, the account was activated under its block, which is the exception
`late` of the property. Every step is shown to do to each row one of four things
(`RowFits`): nothing, an edit, a registration, the cleanup; all properties, also the
two of single steps, follow from that.

*Credentials.* `CredentialsEnd` compares what has been ended with the row of the
moment, so the invariant (`CredentialsInv`) must say that nothing that was ended comes
back: each password is hashed with a new salt and each closing of sessions takes a
new generation, both larger than all that cookies, requests and ended identities
carry (`Past`). A reset code that a request is about to store was never stored before
and is no other request's (`CodesNew`). In `SettledStays`, the upgrade of an old hash
writes only over the password it has checked.

*Pictures.* Ids come from a sequence and belong to one request until its transaction
has ended (`Drawn`). What a request is about to commit has its directory and no row;
after the commit the files are kept (`Mine`). What a request has counted stands unless
another has committed in between, and then it is noted to be stale (`Seen`): the
two limits of the gallery hold but for such requests.

*Posting.* `PostInv` says of each gate of the protector (a kind and an address) that
its cache holds the instant of the last who passed, or nothing; and if nothing, though
nothing was removed out of turn, that this instant is too old for the clock and for
everybody who waits there (`GateSound`). The first attempt at this proof, with a
run of one address, found that the invariant fails with two: hence `dropped`. Of the
limit it says that there is still room for whoever was not refused and has not been
overtaken, in its section (`RoomLeft`): whoever enters the section through the check makes all
others there late, and what comes in otherwise does not count because it is in `excess`.

*Votes.* The counters are raised at the commit by what the transaction itself has
inserted. `PollsInv` says that this is its user's, not committed yet, and for
variants that nobody else has inserted for and no edit has deleted (`Ballots`); that
no edit has deleted a variant with committed votes (`Deletions`), which makes the
cascade of its commit empty; and that whoever was told that his user has not voted is
told right, or has been noted to overlap (`Fresh`). The counter is exact also of
variants that are gone.

*Tags.* `TagsInv` says of what a transaction makes and has not committed that its id is
drawn and is no tag yet, and its name no tag's (`NewOnes`), nor another request's
(`Apart`): the unique index makes the second one wait. The same holds of a synonym whose deletion is
not committed: nobody else removes it, so the commit of a rename finds what its first statement
has found, or a synonym that came later, which `twins` notes. What it holds by locks nobody else holds or
gives to a topic, so a rename knows all who have the tag (`Renames`), and no commit
takes a tag away from under a row (`Keys`, `Spares`). A number counted for a commit is
enough as long as the request has not been told of other commits to the same tag
(`Counted`), which is what `short` excepts; of the hourly job's number the same is said of the
rows it has seen, and of the others `unseen` keeps account. Of documents it says more than the property: a topic
whose document differs is queued, is about to be queued by a request that will read it
(`Awaited`), was queued before the commit by a rename that knew it (`Told`), or is in `stale`.

*Unread events.* A number may be wrong before a transaction and right after it, and
within it the rows and the number disagree all the time. `UnreadInv` follows what is
left of the request's statements (`OnItsWay`) and, as long as nothing has overlapped it,
what the number lacks: one for the event whose row is inserted and whose trigger still
waits (`Owed`), all for the users it is to recount, who by then include everybody
whose event it deletes (`DeletesKnown`); what a recount has read under the user's lock
is what stands (`CountedRight`). For everybody else the number is exact
(`NumberIsRight`). What is drawn and not inserted is nobody's (`NotDrawn`).

The theorems rest on the assumptions that the modules state of their constants:
`ConstantAssumption`, `DataAssumption`, `SectionsAreKnown`, `WarningAssumption`,
`AccountsAssumption` and their like, and, where a module is used through INSTANCE,
`CounterConstants`, `TagConstants`, `EditConstants`, `ReactionConstants`, `PurgeConstants`, `ImageConstants`, `PostingConstants`,
`PollConstants`, `PageConstants`, `UnreadConstants`, `SchedulerConstants`, `TelegramConstants` and `UserpicsConstants`, which stand as hypotheses in the theorems. They say that bounds are natural numbers, that
`Nobody`, `NoInfo` and `None` are none of what they stand beside, that moderators are
users, that penalties are not negative, that processes, topics and names are finitely
many and names enough for the tags there are at first, that the protector remembers an instant for as long
as anybody has to wait (half an hour in the code), that a poll begins with two variants, that comments are
numbered in the order in which their ids are drawn and answer older ones, that moderators are trusted and a guest is
not, and that a cron task has an instant in the day. TLC evaluates each of them on a run's constants.

*Induction.* Some facts need it: the newest element of a set of ids, an order of
a finite set. They are proved from the well-foundedness of `<` on the natural
numbers, by a smallest counterexample, which needs no operator as a parameter.
In the same way the sums: a sum over a finite set is what a function on its subsets
says that takes one element at a time (`IsSum`), there is one such function
(`SumExists`), which element it takes does not matter (`SumTakes`), and a sum changes by as much as
one of its terms (`SumChanges`). The folds of the models are shown to be such sums.
Likewise a set of numbers that has zero, and with each number the next, has them all
(`NumbersReached`). A recursive function has the equations of its definition once there is
one that satisfies them, which takes a proof for each (`DescentExists`, `UndersExist`);
so what it computes for every input is proved only for the answers below a comment.

Every invariant that the runs check, and every property of single steps, is stated by one of these
theorems. Only model-checked: all liveness (`QueueDrains`, `AllIsDelivered`, `TasksCatchUp`,
`CleanupsFinish`, `JobsGoOn`), with the convergence of the index; the provers have no rule for
fairness and ENABLED that these would need. The runs that expect a violation show it by a trace.

## 5. What would come next

1. Pure operators: months of the archive, deletion penalties, who may edit what
   and when, each against a reference definition; the order and limits of lists.
2. An abstract specification of what an author and a moderator may see happen to
   a topic, and `Topic` with `Images`, `Polls` and `Tags` as its refinement.
3. Proofs: that refinement, step by step; what the new operators compute.

## 6. Not modelled, and why

Most of the program's lines render pages, parse forms and markup, or query:
`routes/*` beyond the handlers named in `map`, `markup`, the search page, the
administration pages. They are functions of one request and of what is
committed, and keep no state; what they read is modelled where a later write
depends on it, or, for the topic's page and the lists, where several reads or
queries must agree. The middlewares are functions of the request; the
schema check and the configuration run once. Scores, remarks, favourites,
bookmarks, settings and profile texts are single statements. The jobs that are
left (`vUpdateGroupStatistics`, `vUpdateScore`, `vCleanupOldEvents`, `vDeleteUnusedTags`, which
removes favourite tags that no topic has, the lists of exit nodes and mail domains) are one or two
statements behind a transaction-level advisory lock. Of `vUpdateStatistics`, `CommentDeletion` has
the recount of comments and `Warnings` that of complaints, which follows another rule than the
requests do; the monthly numbers are left out. Rows that nobody has read yet and texts are not
told apart. The database's triggers, keys and locks are taken from
`compat/java-db/schema-objects-contract.tsv` and from PostgreSQL's rules for READ
COMMITTED, as far as the modules need them.
