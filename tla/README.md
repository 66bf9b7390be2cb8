# A TLA+ model of rust-nntp

rust-nntp is a terminal news reader: one thread owns the interface, another owns the NNTP
connection, and they talk through two channels and one shared flag. The repository also
has the client and protocol crates the reader is built on, one-shot commands, and a test
server. This directory models these programs in TLA+, checks small instances with TLC, and
proves the central properties for every instance with TLAPS.

Contents: [the system](#the-system) · [modules](#modules) · [runs](#runs) ·
[findings](#findings) · [proofs](#proofs) · [not modelled](#not-modelled) · [plan](#plan)

## The system

| Part | State it keeps | Operations | Talks to |
| --- | --- | --- | --- |
| `tui/app.rs` interface state machine | group list and scope, selected group, listed records, current fetch token, outstanding count, posting slot, cursors, filter, threads, folds | `on_event` (one arm per event), `on_key` (one handler per key), `on_composed` | returns requests; raises the cancel flag |
| `tui/mod.rs` run loop | the two channel ends, `should_quit` | drain events, draw, read one key, compose, quit, save, join the worker | app, worker, terminal, read store |
| `tui/worker.rs` network worker | the client (or none) | `LoadGroups`, `OpenGroup`, `LoadOverview`, `LoadArticle`, `Post`, `Shutdown` | client; sends events |
| `tui/protocol.rs`, `cancel.rs` | channel contents, one `AtomicBool` | send, receive, raise, lower | both threads |
| `compose.rs` | draft files | write, edit, abandon, discard | run loop |
| `readstate/set.rs`, `store.rs` | ranges of read numbers per group, dirty flag, newsrc file | mark, unmark, forget expired, load, save | app, run loop |
| `config.rs`, `session.rs`, `cli.rs`, `commands.rs` | configuration, target server, credentials | load, merge, resolve a password, connect; `doctor`, `groups`, `overview`, `article`, `config` | client |
| `nntp-client` client, connection, connector | capabilities, overview and header styles, selected group, login, desynchronised flag, limits, TLS state | one method per command, framing, STARTTLS, authentication | socket |
| `nntp-proto` | none: a grammar | parse, encode, match, thread, chunk, split into parts | client, app |
| `nntp-testserver` | corpus, postbox, session state, stop flag, thread handles | accept loop, one handler per command, posting, quirks, shutdown | tests |

What makes each part correct:

- **App**: records of one group are never shown under another's heading; an article is
  marked read in the group it came from; the spinner turns while there is something to
  wait for; a draft file outlives everything but its acceptance. On screen, every article
  the filter lets through is there once or under a fold, and the cursor stays on its article.
- **Worker**: each request is answered once, in order; a connection that failed or was
  abandoned midway is never used again; an overview or article is read from the group the
  request names; a cancellation stops the request it was meant for and no other.
- **Run loop**: quitting ends the process, with the read state on disk.
- **Read set / store**: the ranges denote the set of numbers marked; a crash leaves the old
  file or the new one.
- **Client / connection**: what the client believes of the session (group, login, styles,
  encryption) is what the server believes; a reply is never read as another's; nothing
  secret crosses a link in the clear; neither end waits for the other for ever.
- **Set-up**: what was configured for one server is not offered to another.
- **Test server**: filed articles keep their numbers, the postbox agrees with the corpus,
  and shutdown ends with every session joined.
- **Threading, patterns, ranges, blocks, bodies**: every record appears once in a forest of
  bounded depth; patterns select what they say; chunks cover a range; what was typed is
  what another reader is shown; no part of an article disappears.

What is hard here is mostly what happens between handlers: events that arrive after the
user has moved on, a flag raised while the other thread lowers it, failures in the middle
of a request of several commands, two postings sharing one slot, a reply that comes after
its timeout, a lock held while a reply is written, a quit in the middle of anything; and
input that other people wrote: headers in loops, boundaries left out, lines of dots.
`PROJECT.json` lists these hazards with the lines they sit at.

## Modules

```
Protocol          messages, channels, cancel flag
  App             interface thread      Worker    worker thread, client, server
      Reader      the two composed; fairness; properties
        MCReader  instances for TLC
        ReaderProofs                    theorems about the reader's two threads

ReadSet           ranges of read numbers, as operators
  ReadSetCalls    a set in use; implements NumberSet
  ReadStore       the newsrc file and the readers on it; implements AtomicStore
    MCReadStore   instances for TLC
  ReadStateProofs theorems about the operators on ranges, a set in use, the file and its readers

Wire              commands, status lines and block lines
  Corpus          the test server's groups and articles
    ServerSession one session: every command as state, lines, flow
      SessionProofs                     lemmas about the corpus and the session's replies
      TestServer  accept loop, session threads, locks, shutdown
        MCTestServer
        ServerProofs                    theorems
  Client          connection framing, client methods, connector, session set-up
  OneShot         the one-shot commands as sequences of calls
    Conversation  Client and OneShot against ServerSession, with faults
      MCConversation
      ConversationProofs                theorems

Threads           containers, pruning, subject grouping, as operators
  Threading       thread() step by step
    ThreadProofs  theorems about the links and the trees
  Panes           cursors, filter, folds, overlays; replies from the worker
Setup             command line and configuration to credentials on the wire
Patterns          the wildmat matcher; packing and filtering of subscriptions
Blocks            a draft from the editor to another reader's screen
Ranges            Range::chunks
Parts             the MIME parts of an article
  MCViews         these and ReadSetCalls, one at a time
  ViewProofs      theorems about Ranges, Setup, Patterns and Blocks

FoldTheorems      what folds and sums keep, for any step: instantiated by the proof modules
```

### The reader's two threads

**Protocol** has the request and event types of `protocol.rs`. Data is kept only as far as
the properties tell it apart: a group is a value, an article a pair of group and number, a
scope the set of groups its patterns match, a draft an identity. `Progress` is left out:
its handler overwrites the status line and nothing else. Two event fields do not exist in
the code, `token` of `GroupOpened` and `group` of `Article`; no action reads them, they
let the properties say which fetch and which group a message came from.

**App** has an action for each arm of `on_event` and for each key that issues a request,
changes the read state or raises the flag. An action is the whole handler, with the
requests it returns. Cursor and focus are not kept: Tab and the arrow keys can put them
anywhere, so "the row under the cursor" is any row. The loop drains events before it polls
for a key, but waits in that poll, so a key is handled with any number of events unread;
hence no order between `OnKey` and `OnEvent`. On the way out the last drain (`LastDrain`),
the save (`Close`) and the end of the process (`Exit`) are separate steps, and events may
arrive between them. `wanted` and `issued` are history variables: the row activated last,
and the number of requests issued by keys.

**Worker** runs a request as a sequence of commands: `phase` says whether it is about to
send one, is reading a block, owes a completion, has a connection to drop, or a flag to
lower. Each command may succeed, be refused (the non-fatal half of `ClientError`), break
(the fatal half), or be cancelled if its reply is a block. Sending an event, dropping the
connection, lowering the flag and taking the next request are separate steps, so the
interface can act between any two. `selected` is both the client's idea of the group and
the server's; that they are the same is what `BeliefsAgree` of Conversation says.
The server is external; it may raise a high watermark (`Arrive`), expire its oldest article
(`Expire`), refuse, and break the connection before or after it has acted on a POST. A
range or article that has expired is answered with 423 (`NotThere`) or, for a range, with
an empty block, as servers do both.

**Reader** composes the two. `Wait` is a stuttering step allowed only when both threads
wait for the user or the process is gone; everything else without a successor is a
deadlock, which TLC looks for in every run of Reader.

### The read state

**ReadSet** has the operations of `readstate/set.rs` on a sequence of `[low, high]` ranges.
`MaxNumber` stands for `u64::MAX`: numbers go up to it, and the one addition the code
saturates (`high + 1` in `insert_range`) saturates there. `partition_point` and
`binary_search_by` are the operators `EndingBelow` and `StartingUpTo`, defined by what they
return on a partitioned sequence; on any other they have no value, so a broken
representation stops the model instead of being searched. A range list is the sequence of its
comma-separated pieces, each the numbers written in it, none when it cannot be read.
**ReadSetCalls** starts from any short text and makes one call after another; `call`
records the last one and its answer; `Reload` writes the set and parses it again.
**NumberSet** is the same interface over a plain set of numbers.

**ReadStore** has one or more readers of one file. `Start` is `load_from` (missing file, file
that cannot be read, a group on several lines, `!`); `MarkRead`, `MarkUnread`,
`MarkRangeRead` and `ForgetExpired` are the methods the interface calls, each with its rule
for `dirty`; leaving is `save_if_dirty`: nothing, or create, write and rename as separate
steps, each of which may fail or be the last thing before a crash. The file system is
external and kept as far as `save` uses it: two names, each a link to a file; a name opened
for writing is truncated; the writer keeps its file when the name is renamed under it.
The temporary name is the same for every reader of a server, as in the code. **AtomicStore** is
the promise: the saved state is replaced whole or not at all.

Reader and ReadStore are not composed. Reader keeps the read numbers as a set per group and
treats the save as one step; ReadStore shows what that step does, and ReadSet that a set is
what the ranges amount to. The only store calls of the interface are the four above, made
on the interface thread, so no interleaving is lost between them.

### The conversation

**Wire** is what crosses the connection: a command is a verb and an argument, a line is a
status with its arguments, the content of a block line, or the terminator. A line is
atomic; that a timeout in the middle of one loses the part read is not kept, as the
connection is given up in either case.

**ServerSession** and **Corpus** are the test server's session: one operator per command,
which yields the next session state, the lines written, what the command loop does next
(go on, read an article, upgrade, close) and whether the lines are written under the read
guard of the corpus. Capability profiles, greetings and quirks are those of `config.rs`.

**Client** is `Connection` and `Client` with the connector above them. A method sends a
command and waits; reading the status line, each line of a block, meeting a limit, the end
of the stream, a timeout and a cancellation are steps of their own. `client` holds what the
struct holds (capabilities, group, login, overview and header styles, `desynchronised`,
whether the link is encrypted), `call` the method in progress with what it has read.
Opening a session is a call too: greeting, MODE READER, STARTTLS or implicit TLS,
capabilities, credentials. **OneShot** has the calls `doctor`, `groups`, `overview` and `article`
make, in order, with `doctor` going on after an error.

**Conversation** puts both ends together. The server handles a command in one step and the
client one line at a time; in between the network delays, and a scene says which faults may
happen: a timeout whose reply still comes, a reset, a cancellation, the server's idle
timeout, a failed dial or handshake, plaintext after the 382. The caller drops a client
after a fatal error and dials again, as the worker does; the previous session ends before
the redial. `accepted` counts the posts the caller was told were accepted.

**TestServer** is the server as threads: the accept loop with its list of handles, sessions
that take the corpus lock to read or write, write their reply with or without the guard,
file an article under the write lock and hand it to the postbox under the mutex afterwards,
and a stop at any moment. Writing takes time: a client may be slow to read. A failure of
`set_nonblocking` at the start of a session is left out, as the session then never starts.

### One thread at a time

These modules are checked alone, as no other thread sees their state.

**Threads**/**Threading** translate `thread.rs`: a container is an index, a record has an id, a
References chain and a subject; `thread()` is cut at its loop bodies, so that invariants
hold between any two links. A subject is a sequence of tokens (reply marks, tags, words).
**Panes** calls the same operators as a whole: it has cursors, focus, filter box, unread
filter, threaded view, folds, scrolls and overlays, with every key that moves them, and the
replies a worker gives, one group with articles and one without. What `ui.rs` draws is
`ArticleRows`, `VisibleGroups` and the scrolls clamped at drawing. The replies of a
superseded fetch are taken out of the queue when the new one begins, as App shows they are
dropped; the filter is its length, with how much of it each group's name contains.

**Setup** goes from a command line and a file to what is sent in AUTHINFO: `config` and
`Cli::check`, loading, `resolve` (which server, host, port, security, user and password
sources), `resolve_password`, and the reader's reconnections. A setting carries the name of
the server definition it was written for. **Patterns** has `matches_one` with its one
backtracking point, the loop of `Wildmat::matches`, `batch_patterns` and the local filter of
`load_groups` when a command is refused; names are short sequences of two letters. **Blocks** follows a draft: `Draft::parse`,
`problems`, `to_lines`, stuffing, the server that unstuffs, files and sends it again, and the
split into headers and body. A line is a sequence of words; the MIME headers `to_lines` adds to a
body that is not ASCII, and `Newsgroups` of commas alone, are left out. **Ranges** has
`Range::chunks` at a width of `Top`. **Parts** has `split_on_boundary` with its limits,
`display_part`, `other_parts` and signatures; the order in which containers are split does
not matter, as a split looks at the container's own lines only.

Operators marked `Mutant` are plausible bugs of the definition that follows them; no
specification uses them. Substituted for that definition, each makes the property named
for it in `PROJECT.json` fail, which shows that the property depends on that code.

## Runs

| Run | Question | Size |
| --- | --- | --- |
| `session` (`MCReader.cfg`) | Can any interleaving of opening, reloading, reading, cancelling and failing mix two groups? `TypeOK`, `ListMatchesGroup`, `MarksRightGroup`, and the inductive invariant `IInv` | 620 thousand states |
| `posting` (`MCReaderPost.cfg`) | Are drafts, the outstanding count and the connection right when group lists and postings are refused, broken off, answered late or not at all? `DraftKept`, `InflightBound`, `NoBrokenClientKept` | 1.7 million |
| `liveness` (`MCReaderLive.cfg`) | Does everything end, with marking and catching up on the way? `FetchesEnd`, `SpinnerStops`, `QuitEnds` | 200 thousand |
| `read_store` (`MCReadStore.cfg`) | Is the file always some whole state, whatever fails or crashes? `NeverHalfWritten`, `ChangesAreDirty`, `UnsubscribedKept`, and the refinement `ImplementsAtomicStore` | 190 thousand |
| `two_stores` (`MCTwoStores.cfg`) | Do two readers that leave at once finish, and clean up? `NoLitter`, `SavesEnd` | 17 thousand |
| `conversation` (`MCConversation.cfg`) | Do client and server stay in step and agree, whatever the server offers and the network does? `TypeOK`, `InStep`, `BeliefsAgree`, `NoPlainCredentials`, `ClearForgotten`, `PostsAccounted`, `CallsEnd` | 100 thousand |
| `server` (`MCTestServer.cfg`) | Do sessions share corpus, postbox and shutdown without harm? `PostboxAgrees`, `JoinedAll`, `FiledStays`, `ShutdownEnds`, `PostsAnswered` | 110 thousand |
| `views` (`MCViews.cfg`) | Do the single-threaded parts compute what they are meant to? `RangesNormal`, `ImplementsSet`, `Forest`, `ThreadsWhole`, `PanesTypeOK`, `RowsAccounted`, `PlaceKept`, `CredentialsStayHome`, `PatternsAsMeant`, `TypedIsShown`, `ChunksCover`, `PartsAccounted` | 570 thousand |
| `cancel_leak`, `two_drafts`, `last_exit`, `late_reply` | The four findings below; each run ends in a violation | small |

**Bounds.** `MaxRequests` limits what keys issue (3, 2, 2): three requests are enough for
"open A, open B, and something for the one left", the shortest sequence any of the mutants
needs is two. `ChunkSize = 1` with two articles gives every fetch two chunks, so there is a
moment in the middle of it. `MaxFaults` is 1, and 2 in `posting`, where a refused pattern
and a later failure combine. Watermarks move by one or two (`MaxLow`, `MaxHigh`), enough
for a listed article to vanish and a listed group to be empty when it is opened. The two
groups of `session` are interchangeable and are declared symmetric; `liveness` uses no
symmetry. `posting` has one draft: with two the property fails, which is a finding.

`read_store` has two groups of two numbers, three starts (one to write, one to
fail, one to load what is left), two changes in each session, and initial files as another
newsreader or an editor may leave them: repeated groups, unsubscribed groups with and without
marks, reversed and unreadable pieces, lines that are not entries. `two_stores` has two readers, each started
twice, and no other faults. The readers of `ReadStore` may stop anywhere, since users
need not start the program again, so its runs do not look for deadlock; `SavesEnd` is the
property that a save does not get stuck.

`conversation` starts in one of 38 scenes: each quirk, profile, greeting and way of
opening a session, and each one-shot command, over a corpus of a group with a gap and an
empty one. A worker makes two or three calls, any of the twenty in `MCCalls`, on up to two
connections with one fault: two calls are what a left-over reply or a wrong group needs, three
where the overview style has to be learned first. `server` has two clients of two commands: a posting that waits for
the lock and a reader that holds it are all a deadlock needs.

`views` looks at one topic per behaviour. Read sets use numbers 0 to 4 and texts of two
pieces. Threading has all sets of three records over chains that loop, repeat an id or name a missing
article, subjects that join them, and four records in line, with `MaxDepth = 2`, which four exceed.
Panes has three articles in three chunks, one of them empty, two threads, and one family of keys at a time, so that
each combination of filter, fold, mark and reload with arriving chunks happens; one body and one overlay are
longer than their panes. Setup crosses eleven files with every combination of the flags that
choose server, host, port, security, user and password. Patterns have up to four characters against names of three;
subscription lists need one, two or three commands. Ranges try every pair of bounds and every chunk size
at a width of six. Its behaviours end (a thread is built, a draft is shown), so the run
does not look for deadlock.

**Fairness.** In Reader, weak fairness of the worker (the client sets connect, read and write
timeouts on every socket, so each call returns), of event handling (the loop comes round
every 120 ms) and of leaving (the loop returns as soon as it sees `should_quit`, the join
has a deadline). Nothing is assumed of the user, who may never press a key, or of the
server, whose `Arrive` and `Expire` need not happen. No single outcome is fair: a worker
that only ever meets failures still satisfies the assumption. In ReadStore a save
that has begun goes on (`fs::write` and `fs::rename` return); a reader need never leave.
In Conversation the client reads what has arrived, the session thread handles what it is
sent, and a handshake ends; the read timeout is not fair, so that `CallsEnd` shows no call
relies on it. In TestServer the accept loop and the session threads run, a free lock is granted, and the
socket timeouts end a session whose client is silent; clients need not do anything.

What the properties say, and why they are not obvious:

- `ListMatchesGroup`: every listed record belongs to the selected group. The interface
  clears the list when Enter is pressed, but the group changes only when `GroupOpened`
  arrives; in between, chunks of older fetches, reloads of the old group and cancellations
  may intervene. The token check is what carries it: with the group name alone TLC finds a
  sequence A, B, A that lists B's records under A.
- `MarksRightGroup`: the `Article` event has no group, the handler uses the selected one.
  It is right because the list is cleared before another group is asked for, so no article
  request can follow an open of another group.
- `InflightBound`: the count never exceeds the requests unanswered. (It can fall short:
  `Disconnected` zeroes it while requests are queued. `SpinnerStops` is the liveness side.)
- `NoBrokenClientKept`: `load_groups` survives errors of its second command; the fatal ones
  must not be among them.
- `QuitEnds`: from the moment of quitting the process ends, with what was read saved. That
  the save itself succeeds is assumed here; ReadStore has the ways it fails.
- `RangesNormal`, `ImplementsSet`: `contains` and `insert_range` search by bisection, which is
  right only on sorted, disjoint, non-adjacent ranges; each operation must re-establish that
  for the next. `ImplementsSet` also covers the counts shown in the group list, and that a set
  written to the file is read back.
- `ImplementsAtomicStore`: the saved state changes only into what the leaving reader held,
  and a reader that starts holds what the text says by a definition of its own (`TextSays`:
  union over lines, unsubscribed if every line says so), not by the loader's.
- `ChangesAreDirty`: `forget_expired` decides by comparing counts before and after; marking
  always sets the flag. A change missed here is lost in silence, as nothing is saved.
- `UnsubscribedKept`: a `!` another newsreader wrote survives loading, marking, expiry and
  saving, also when nothing is read in the group. Exempt is a session whose file could not be read.
- `NoLitter`, `SavesEnd`: two savers share a temporary name; whoever comes late must neither hang
  nor leave the name behind.
- `InStep`: between two calls on a connection whose reads have all succeeded nothing is unread and the server
  waits for a command, so every method reads each of its replies to the end or gives the
  connection up: refusals, limits, cancellations, a block announced by a status nobody asked for.
- `BeliefsAgree`: both ends have the same group and the same idea of the login, and neither a
  refused range nor a verb advertised and missing makes the client give up overviews or
  header lines on a server that has them.
- `NoPlainCredentials`, `ClearForgotten`: over every order of STARTTLS, MODE READER, capabilities and
  login, credentials go out encrypted or by permission, and nothing learned in the clear is
  used afterwards.
- `PostsAccounted`: an accepted post is in the corpus, and only a fault that took the 240 away leaves an article its
  author was not told of.
- `CallsEnd`: without the timeout, no call waits for a server that waits for the client.
- `PostboxAgrees`, `FiledStays`: two locks are taken one after the other while other sessions file.
- `JoinedAll`, `ShutdownEnds`, `PostsAnswered`: handles are dropped as sessions end, some commands
  write under the read guard, and posts wait for it; a client that does not read holds up
  others only until its own timeout.
- `Forest`: `build` recurses along children, `is_ancestor` climbs parents; both need the links to agree and
  to have no loop, after every single link and during the clamp.
- `ThreadsWhole`: every record once, none deeper than the limit, replies in order and together with what
  they answer (unless other records' chains claim them first).
- `RowsAccounted`: the cached tree is that of the list, and no fold hides an unread article that no row stands for.
- `PlaceKept`: a change of filter, view or folds, or a chunk, keeps the cursor on its article while that is shown.
- `PanesTypeOK`: besides the types, the group cursor is always on a row the filter leaves and scrolls stay within the text.
- `CredentialsStayHome`: user name, password sources and port written for one host never reach another, two sources are
  never both used, and an empty password is never sent for want of one.
- `PatternsAsMeant`: the matcher agrees with a search through every cut of the name; a list without exclusions yields exactly
  the groups some pattern matches, however it is packed and wherever the server refuses; and a list with exclusions sent in
  one command yields those whose last matching pattern does not exclude them.
- `PartsAccounted`: a container of up to `MaxParts` parts loses none of their text, no text is in two parts, what is nested too
  deep stays whole, and every leaf is shown, named or a signature. Containers of fewer parts, exactly as many and one more occur.
- `TypedIsShown`, `ChunksCover`: as in the list of parts above.

## Findings

1. **A late Esc cancels the next request** (`cancel_leak`, `worker.rs:83`). The flag is
   lowered after a request so that it does "not leak into whatever runs next", but Esc
   raises it while `inflight > 0`, which lasts until the terminal event is drained. Between
   the reset and the drain there is a moment in which Esc leaves the flag up for a request
   the user has yet to make.
2. **An acceptance can delete another article's draft** (`two_drafts`, `app.rs:1352`).
   `posting` holds one path. Compose, post, compose and post again before the first answer:
   the first `Posted` deletes the second draft. If the server refuses the second article,
   it is lost, against `compose.rs`' "deleted only once the server has accepted the
   article".
3. **The last reader to exit may lose** (`last_exit`, `store.rs:343`). ADR-0009 says that of two
   readers on one server "the last one to exit" wins. Both write the same temporary name: the
   first to rename takes away what the other wrote, and the other, last to exit, has nothing to
   rename. Its error is logged and its marks are gone. Where two writes into that file
   overlap, the file put in place can be the end of one text after the other, so
   `NeverHalfWritten` is a promise for one reader only and is checked for one.
4. **A login can leave a reply behind** (`late_reply`, `client.rs:360`). `authenticate` ends with
   `let _ = self.refresh_capabilities();`. If that refresh times out, the error is discarded, although
   `error.rs:226` says of such errors that "continuing would read one response as another":
   the session goes on, and the next command reads the capability list as its own reply.
   `InStep` and `BeliefsAgree` are therefore about connections no read has failed on (`lost`).

Further disagreements met while modelling, which no run of this project stands for:

- **A group that was left comes back** (`app.rs:1160`). Enter on an empty group while another is
  being fetched clears the list and keeps group and token, so the rest of the fetch is
  accepted: not the "records for a group the user has left" that `accepts_overview` says it
  catches. `LeftGroupStaysLeft` as the invariant of `MCReaderPost.cfg` shows it.
- **The highlighted row is not the one opened** (`app.rs:821`). Opening an article marks it read; under
  the unread filter its row goes, and unlike `toggle_read_under_cursor` ("the cursor has to be brought back inside it")
  the handler does not clamp the cursor. On the last row the screen then highlights the row above while Enter
  finds nothing. `ArticleUnderCursor` as the invariant of `MCViews.cfg` with
  `Keyboards <- PlaceKeyboards` and the topic `panes` shows it.
- `body.rs:25` says of `MAX_PARTS` that "the remaining lines are kept as one final part"; `split_on_boundary` stops and
  drops them. `PartsAccounted` is about containers of up to that many parts; for larger ones it claims only that no text is in two parts.
- `Draft::parse` ends the headers at a line of spaces but starts the body after the first empty
  line, so what stands between the two is dropped; `TypedIsShown` excludes such drafts.
- `config.rs:75` says "the last pattern that matches a group decides"; this does not hold across commands when a list is split, nor
  in the local filter, where any match selects. `PatternsAsMeant` is about lists without exclusions and lists sent in one command.
- `thread.rs` says the first link "is the one built from the article's own header"; an earlier record's chain can set it first.
- `main.rs:19` says the reader's "logs must not go to standard error"; without a data directory they do.

## Proofs

Proved with TLAPS for every value of the constants. What is assumed of the constants is named
(`...Assumption`, `ASSUME`d in the module that declares them) and TLC evaluates the same
assumptions in the runs. Three theorems about one reader of the file, one about its temporary
name, one about the postbox, one about posts and one about drafts have a further hypothesis, given with them.

### The reader's two threads

For every set of groups and drafts, every bound, every key set and every set of faults, from the
assumptions in Protocol, App and Worker (types; `ChunkSize` and `Batches` at least 1; `NoGroup`
and `NoDraft` are not a group or a draft).

| Theorem | Says |
| --- | --- |
| `ReaderProofs!TypesKept` | `Spec => []TypeOK` |
| `ReaderProofs!BrokenClientDropped` | `Spec => []NoBrokenClientKept` |
| `ReaderProofs!InductiveInvariant` | `Spec => []IInv` |
| `ReaderProofs!ListIsOfGroup` | `Spec => []ListMatchesGroup` |
| `ReaderProofs!NoTokenMeansNoFetch` | `Spec => []NoTokenNoFetch`: `overview_token` is `None` only if no fetch is queued, in work, or being reported |
| `ReaderProofs!ArticleMarksItsGroup` | `Spec => MarksRightGroup` |
| `ReaderProofs!InflightIsOutstanding` | `Spec => []InflightBound` |
| `ReaderProofs!DraftsOutlivePosting` | `Spec /\ OnePosting => []DraftKept`: no article is sent while an earlier one is in flight |

*Type correctness* is not inductive alone: that a chunk's records are article identities
needs `selected` to be the job's group, and that a chunk's bounds are naturals needs the
range left to be nonempty. `TypeInv` therefore adds `WorkerConsistent`: which commands a
job may be at, and that records and articles are read with the job's group selected.

*The list* needs the order of messages. Everything pending forms one line: events, then the
job, then requests. `IInv` says that along this line fetch tokens never decrease and
`OverviewComplete` is the last word of its fetch (`TokensOrdered`); that every token was
issued and only the newest can be current (`TokensIssued`); that one token names one group
and a chunk holds records of the group it names (`FetchesConsistent`); that while anything
is listed no open of another group is pending (`OpensMatchList`); and that an article on
its way belongs to the selected group with no open of another group ahead of it
(`ArticlesMatchGroup`). A chunk accepted by token is then of the newest fetch, whose
`GroupOpened`, if it had one, has been handled; no other open is pending, so the list keeps
matching. When Enter asks for another group the list is empty, which makes `OpensMatchList`
vacuous until the first chunk after it.

The proof follows the line, not the actions: for most actions it is enough that both
queues keep what they held, lose their head, or gain one message that is not part of a
fetch, and a lemma covers each shape (`PendingShrinks`, `PlainAppended`, `RequestTaken`,
`FetchEventSent`, `FetchIssued`, ...). `WorkerOrderStep`, `KeyOrderStep` and
`EventOrderStep` then classify the actions.

*The count.* `InflightBound` compares a counter with the sizes of two sets of positions and the job in work.
Every step of the worker moves one request along the line, from the channel to the job to a terminal event, so
`Outstanding` does not fall; a request sent adds one to both sides; and a terminal event received takes one from both.

*Drafts.* `SlotIsInFlight` says that while the posting slot is taken everything about posting, on the channel, in
work or among the answers, is about the draft in it. An answer then deletes the draft it is about. A
second article sent before the first is answered breaks this, and `DraftKept` with it: finding 2. `OnePosting` excludes
exactly that step, and nothing else of what users, server and faults may do.

### Read sets

For every width, from `MaxNumber` positive. The first group takes any ranges in normal form; the
last two are about the state machine of ReadSetCalls.

| Theorem | Says |
| --- | --- |
| `ReadStateProofs!ContainsIsMembership` | `contains` answers membership in the set the ranges denote |
| `ReadStateProofs!InsertRangeIsUnion` | `insert_range` keeps normal form and adds exactly the numbers between its bounds, in either order, never 0 |
| `ReadStateProofs!RemoveIsDifference` | `remove` keeps normal form and takes out exactly its number |
| `ReadStateProofs!RemoveRangeIsDifference` | `remove_range` keeps normal form and takes out exactly what is between its bounds |
| `ReadStateProofs!ParseIsUnion` | any text parses to ranges in normal form that denote the numbers its readable pieces name |
| `ReadStateProofs!DisplayParses` | what is written reads back as the same set, with no unreadable piece |
| `ReadStateProofs!CountsAreSizes` | `count`, `read_in` and `unread_in` are cardinalities |
| `ReadStateProofs!RangesStayNormal` | `CallSpec => []RangesNormal` |
| `ReadStateProofs!SetImplemented` | `CallSpec => ImplementsSet`: the refinement of NumberSet, call by call |

In normal form the ranges that end below a number are a prefix of the sequence, and so are
those that start at or below it; that the end of such a prefix exists is the least-number
principle, which the library's well-foundedness of `<` gives for sets (`LeastNumber`,
`EndingBelowIs`, `StartingUpToIs`). The ranges between the two ends are those that touch
the new one; as they are sorted, their hull is decided by the first and the last (`HullIs`). Splicing it in
leaves a gap on each side, because the neighbours failed the two searches (`MergeIsUnion`).
Removal replaces one range by what is left of it, at most two ranges inside the old one
(`ReplaceWithin`).

Loops are folds. **FoldTheorems** states once, with the step, the weight and the invariant as
CONSTANT operators, that a fold keeps what each of its steps keeps (`FoldKeeps`) and a sum is
built up term by term (`SumKeeps`); both by the least-number principle on the first prefix that
fails. Each loop takes an instance of its own: `parse` with "denotes what the pieces so far
name", `remove_range` with "what is left of the ranges so far is normal, ends where the next
begins, and denotes the difference", the counts with "is the size of the ranges so far".

### The newsrc file

| Theorem | Says |
| --- | --- |
| `ReadStateProofs!LoadSaysText` | what is loaded from any file says what the file says (`TextSays`, a definition of its own) |
| `ReadStateProofs!NewsrcSaysStore` | what is written for a store says what the store holds |
| `ReadStateProofs!StoreTyped` | `Spec => []StoreTypeOK` |
| `ReadStateProofs!NoChangeIsMissed` | `Spec => ChangesAreDirty`, for any number of readers, files and faults |
| `ReadStateProofs!NothingLeftBehind` | `Spec => []NoLitter`, for any number of readers, where no write or rename fails and nobody crashes |
| `ReadStateProofs!FileIsWhole` | one reader: `Spec => []NeverHalfWritten`, whatever fails |
| `ReadStateProofs!FlagsSurvive` | one reader: `Spec => UnsubscribedKept` |
| `ReadStateProofs!StoreIsAtomic` | one reader: `Spec => ImplementsAtomicStore`, the refinement of AtomicStore |

`Alone`, the hypothesis of the last three, says that `Readers` has one element; it may start, fail,
crash and start again for ever. With two readers `NeverHalfWritten` is false, which is finding 3.
The hypothesis of `NothingLeftBehind` is needed as the code removes the temporary file after none of
the three. It is inductive with the fact that the temporary name is in use only while a save is
under way (`InUse`). `AloneInv` is the invariant of one reader: between saves there is no temporary
file; while writing, the name and the handle are the same file, which is not the one under the
real name; when renaming, that file holds the whole text; and what the store says is what it
loaded, changed by its marks. A rename then maps to AtomicStore's replacement and every other step
of a save to a stutter. `ChangesAreDirty` rests on `forget_expired` comparing counts: dropping
numbers changes the set exactly if it changes its size (`CountsAreSizes`).

### Client and server

| Theorem | Says |
| --- | --- |
| `ConversationProofs!ConversationKept` | `Spec => []Whole`, the inductive invariant |
| `ConversationProofs!ConversationTyped` | `Spec => []TypeOK` |
| `ConversationProofs!NothingInTheClear` | `Spec => []NoPlainCredentials` |
| `ConversationProofs!NothingLearnedInTheClear` | `Spec => []ClearForgotten` |
| `ConversationProofs!ClientInStep` | `Spec => []InStep` |
| `ConversationProofs!ClientBelievesWhatIs` | `Spec => []BeliefsAgree` |
| `ConversationProofs!AcceptedWasFiled` | `Spec => [](accepted <= Filed)` |
| `ConversationProofs!PostsAreAccounted` | `Spec => []PostsAccounted`, where no post names two carried groups (`OneFilingEach`) |

From `ScenesAssumption` (configuration and job of a scene are of the kinds `config.rs` and the
commands have; calls carry the arguments their methods take; the corpus is one), for any set of scenes, calls and
faults. `Whole` is `Core /\ CallerFine`. `Core` says of the client that it takes the link to be
encrypted only if the session does, and then holds no `STARTTLS` label (`Heir`); that greeting,
capabilities, login and STARTTLS are asked by `connect` only (`TalkFine`), and that while `connect`
goes on over an encrypted link no line on its way, and none collected, says `STARTTLS`; and that a
login on the wire is there by permission or encrypted (`WireFine`). `CallerFine` says that a one-shot
command's remaining stages are its own.

The heart is that the label can be read only from a list sent in the clear, and that the upgrade, the one
step that makes the session encrypted, empties what is on its way and makes a new client that knows
nothing. `AUTHINFO` leaves `authenticate` only past its check of the link, and nothing takes the encryption away
between the check and the line. For the server half, each reply is shown to keep the session's
`encrypted` and its shape (`Answers`), and a capability list to match the link (`AdvertisedOverTls`).

*In step.* `InStep` and `BeliefsAgree` are about the moment between two calls; the invariant, `Steady`, says where
both ends stand at every other moment. As long as no read has failed, a call that awaits a status line has
either its command on the way, the server not having taken it (`Unanswered`), or the whole reply (`Replied`); one
that reads a block has the rest of that block (`Reads`); between calls there is nothing (`Resting`). Once the server
has gone, what is left may be followed by its one announcement, or lack its end.

Two halves meet in `Answered`, which says what a reply to a verb is: a status line, then a block if and only if
the code announces one for that verb. On the server's side (`SessionProofs`), every handler gives a reply
that fits the verb (`Fits`): it is `Answered`, and its first line says what has become of group, login
and link (`Tells`). This goes through every profile and quirk, truncated blocks and monster lines included,
and ends in `HandleFits`. On the client's side, every action keeps `Steady`: a step that takes a line leaves the rest of
the same reply, a step that ends a call leaves nothing (`Leaves`), and a path on which something would be
left gives the connection up. LISTGROUP needs a case of its own, since the server's group changes with the status and the
client's after the block, and so does the 382, after which plain text may follow but the handshake then fails.

*Posting.* What is filed and what is confirmed differ while an article or its 240 is on the way, and for good when a fault takes
the 240. `Books` says what may be on the way: one article at most is sent, only after its 340; while it travels nothing
follows that offer but the announcement of the end; and a 240 is the first line unread (`Orderly`), which no other reply
to any command can be (`OrderlyAnswers`, from `Fits`). `Ledger` is then two inequalities: every post reported, and a 240 still unread, is
filed; and everything filed was reported, awaits its report (`Awaited`), or has had its fault. An article whose call a
timeout ended before the server took it has had its fault before it is filed, and is carried as `Stray` until then.
An article for two carried groups is filed twice and confirmed once, hence `OneFilingEach` for the second inequality,
which the scenes of the run satisfy; `AcceptedWasFiled`, the first, has no hypothesis.

### The test server

For any number of clients, commands, corpora and quirks, from `ServerAssumption`.

| Theorem | Says |
| --- | --- |
| `SessionProofs!InjectAdds` | filing takes nothing out, renumbers nothing, and files once for each name carried |
| `ServerProofs!NothingFiledIsLost` | `Spec => FiledStays` |
| `ServerProofs!EverySessionJoined` | `Spec => []JoinedAll` |
| `ServerProofs!PostboxKept` | `Spec => []PostboxAgrees`, where nothing is crossposted (`NoCrossposts`) |

`PostboxAgrees` compares two numbers: articles filed, and articles in the postbox plus the sessions
that are between the two locks. A crosspost is filed in several groups and posted once, so the
equation is about articles that name at most one carried group, which is the hypothesis
`NoCrossposts`. The corpus total is a sum over groups (`SumKeeps`); the sessions between the locks are a finite set
that gains or loses its one stepping member (`BoxingCounted`). `Handled` is the invariant behind `JoinedAll`: every
session alive has its handle in the list, so dropping the handles of finished threads loses none that
matters, and the loop ends only when every handle left is of a session that is over.

### One thread at a time

| Theorem | Says |
| --- | --- |
| `ViewProofs!ChunksAreRight` | `RangesSpec => []ChunksCover`, for every `Top` |
| `ViewProofs!CredentialsAtHome` | `SetupSpec => []CredentialsStayHome`, for every command line and file |
| `ViewProofs!MatcherIsRight` | `PatternsSpec => []MatchesAsMeant`, for every pattern and name |
| `ViewProofs!PatternsRight` | `PatternsSpec => []PatternsAsMeant`, for every list of items, with exclusions where one command holds it, catalogue and length limit |
| `ViewProofs!TypedComesThrough` | `BlocksSpec => []TypedIsShown`, for every text, of any lines and words, whose headers end at an empty line |
| `ThreadProofs!LinksFormAForest` | `ThreadSpec => []Forest`, for every list of articles and every chain of references |
| `ThreadProofs!RepliesAreTogether` | `ThreadSpec => []RepliesJoinTheirParent`, the last part of `ThreadsWhole` |
| `ThreadProofs!ThreadsAreWhole` | `ThreadSpec => []ThreadsWhole`: what is returned holds every article once, in order and in bounded depth |

`RangesInv` adds where the loop stands: `start` is in the range or just past the widest number, which is the
step at which the code leaves the loop instead of adding. `SetupInv` follows the stages of start-up:
every setting resolved so far was written for the server it is used with.

*The matcher.* `Denotes1` cuts the name at one place for each character of the pattern. `Rest(pattern, name, k, m)`
says that what follows the k-th character fits what follows the m-th of the name. `Stands`, the invariant, says that the
whole matches if and only if the rest does from where the scan stands, or from a later place of the last star. That earlier
stars may be forgotten is `RestSkips`: if the rest after an earlier star fits after some longer run, then the part up to the
last star could have been matched where it was, and the last star takes the difference. The assumption `"end" \notin Characters`
is about the model's own marker for the end of the pattern.

*Subscriptions.* The packing loop is followed by `PackInv`: `length` is the length of the joined batch and within the limit, so no
batch is refused by `join` and dropped; and batches and current item list together carry exactly the items before the loop.
That every item fits in a batch of its own is `SubscriptionsAssumption`: `Wildmat::parse` refuses longer ones. While the batches are sent,
`ListInv` says that what is listed and what is still to be asked for make up what is wanted.
With exclusions the argument is another: `OneCommand` says that while a list that fits one command is packed no batch is cut
(a part of it, joined, is no longer than the whole: `PrefixesAreShorter`), so the one answer is that of the whole list, and the
loop of `Wildmat::matches` lets the last sub-pattern that matches decide (`LastDecides`).

*A draft on its way.* `TravelInv`: while the article is posted or fetched, what has been read and what stands before the
terminator make up the lines of `to_lines`. A stuffed line is never the terminator and unstuffs to itself
(`StuffIs`), so each line read moves over whole (`LineMoves`) and a block ends where it should. Then the split: no header
is empty, since the headers end before the first blank line and unfolding and trimming leave something on each (`HeadersAre`), so the first
empty line is the one `to_lines` puts in (`SplitIs`). `Draft::parse` looks for the body separately from the headers; that it
finds what is below them needs a draft with a header and a body, which `problems` has made sure of (`BodyIsBelow`).
`DraftsAssumption` says only that texts are sequences of lines of words.

*The containers of a thread.* `IsForest` is `Forest` together with the types of the arena: every link, every id and every
record names a container there is. That no container is its own ancestor is said of sets: every set of containers has one
whose parent lies outside it (`Rooted`). The step that could break it is `set_parent`. When `is_ancestor` says no, the climb
from the new parent has ended without meeting the child, so no set that holds the new parent, and with each member
but the child its parent too, exists (`NotAncestor`); and the new link could break `Rooted` only with such a set
(`LinkIs`, `SetParentKeeps`). The children lists stay right because a child that has a parent is never given another.
`clamp_depth` goes around `set_parent`: it empties the subtree below each container at the last level and hangs all of it there.
That this gives no container two parents needs the containers on one level to have disjoint subtrees
(`LevelsApart`, `SubtreesApart`), which in turn needs the roots to be without parents: `RootsInv`, through
`group_by_subject`, where a root merged under another is struck out only at the end. `WalkInv` says that the
records inserted so far have their containers. `Subtree` is cut off after as many levels as there are containers, and a pigeonhole argument shows
that this is deep enough (`SubtreeIs`). `SortedByIs` says that sorting neither drops nor repeats. `ThreadInputsAssumption`
is the type of a list of articles: ids, chains and subjects, without any condition on them.

*Replies and what they answer.* `RepliesJoinTheirParent` compares the roots of two containers. A set that has one container
without a parent, and with each other member its parent, lies within the thread of that one (`TreeOf`, `RootOfTree`), so a
root can be found without following the climb. `StayJoined` then says that a thread never comes apart: `set_parent` hangs one
whole thread under a container of another, `clamp_depth` moves containers within theirs, and both leave containers with the same
root with the same root. What is left is the moment a record is linked to its nearest reference, `JoinInv`: each record has a container
that only its own id can name (`OwnContainers`), the chain being followed has got as far as `walk` says (`ChainInv`), and a
record not yet linked has no parent unless some chain goes past its id (`Unlinked`), so `set_parent` does not decline. The
attempt to prove the last part corrected the property: a header whose own chain names its own id on the way to another
reference, `<<a, s, b>>` in the header of `s`, can also have given `s` a parent before, so the property excludes every chain
that goes past the id and not only those of others. `MCViews` follows the last two references of a chain
(`MaxReferences`), too few to show it.

*The trees that are returned.* `Homes` says that the containers with an article and the records are in one-to-one
correspondence, from `insert` on; everything after moves containers, never articles. `Rooting` says that the thread of every
record starts at one of the roots, which are distinct: `RootsHoldAll` when they are collected, `LinkedRoots` and `GroupInv` while
they are grouped by subject (a root that is merged has a parent, so it is not where any thread starts, and may be struck out),
`ClampedRoots` for the clamp. `build` is the recursion `Trees`, by the number of levels left: `TreeGrows` is its one step,
that what `build` makes of a container is a `GoodTree` if what it makes of its children is, and that nothing the children hold is
dropped by the filter, by the sorting or by the pruning of empty containers. In a `GoodTree` every node is `Sound`: its replies have
no article in common, are listed by their oldest, and an empty node has at least two. `TreesAreWhole` and `BuiltHolds` take the
step as often as there are levels, so the tree of a root holds every article of its thread. `BuildInv` collects the trees one by
one; trees of distinct roots are apart (`RootsApart`), which makes `FullForest` of what is returned (`ReturnedForest`).

From there the three parts of `ThreadsWhole` follow. An article that is in two trees of a list would be in the
articles of both, so each level of nodes has at most one node over it (`OneToALevel`), a node's own article is not below it
(`NotBelow`), and it has one place in one list (`HasPlace`, `HasOnePlace`, `EachShownOnce`). The order and the two replies of an empty
node are in `Sound` (`NodesAreSound`). For the depth, `clamp_depth` leaves containers in `Layers`, with nothing after layer `MaxDepth`
(`ClampedIsShallow`); pruning only ever puts a tree higher than its container, so the replies to a node are trees of
deeper layers (`RepliesAreDeeper`), and no node is left for the level after the last (`ShallowForest`).

### Only model-checked

- All liveness (`FetchesEnd`, `SpinnerStops`, `QuitEnds`, `SavesEnd`, `CallsEnd`, `ShutdownEnds`,
  `PostsAnswered`): TLAPS does not treat fairness or ENABLED.
- `PanesTypeOK`, `RowsAccounted`, `PlaceKept` of Panes, `PartsAccounted`: checked on the bounds above. The first three speak
  of `ThreadOf` as a whole and of rows flattened and filtered by library operators, the last of parts within parts: what a
  recursive function computes on every input is an induction the installed provers do only where it can be put as a fold or as
  a walk of so many steps, with a given step.

## Not modelled

- The message log, half-page moves and status wording of the interface; colours, widths and wording on screen.
- Terminal failures, which leave the loop early and then take the same way out.
- Power failure while saving: the code does not sync the file before renaming it, and the
  model's crash is that of the process. `set_read` has no caller; `file_name_for` is a pure
  function of the server's name; the size limit on loading counts as a file that cannot be read.
- Wording of messages; `Progress`.
- The TLS library: a handshake succeeds or fails. TOML, clap and the log sink.
- Stateless text: parsing of overview lines, headers, dates and message-ids, encoded words, charsets,
  format=flowed, clear-signing, subject normalisation by character. No state, no interleaving; the
  repository's unit and property tests reach it directly.
- Mutation of `requests` after the worker has stopped but before its receiver is dropped:
  a send in that instant counts as failed.

## Plan

Done, in order: Protocol, App, Worker, Reader with their proofs; ReadSet and ReadStore with
both refinements; Client, ServerSession and Conversation; TestServer; Threading, Panes, Setup,
Patterns, Blocks, Ranges and Parts.

Proved since: the operators of ReadSet, the read-state store and both refinements, `Ranges`, `Setup`, `Patterns`, `Blocks`,
the test server, the reader's count and drafts, and of the conversation its types, its encryption, that
both ends stay in step, and the account of its posts; the links of Threads, that replies join what they answer, and that
what thread() returns is whole.

Theorems worth proving next:

- `RowsAccounted`, whose rows are the nodes of `ThreadsAreWhole`: it needs `ThreadOf`, the folds over `Inserted` and `Linked`, shown
  to reach what Threading's steps reach, and `Walk` shown to list every node once.
