# mycgi: a TLA+ development

mycgi (`src/`) is the FastCGI program of a satellite receiver's web interface. It
is one single-threaded daemon between two others: a web server, which hands it
requests over the FastCGI socket, and a *decoder* process (not in this
repository), which drives the receiver. Commands go to the decoder through one
FIFO, reports come back through another. This directory models that daemon, checks
the models with TLC and proves theorems about them with TLAPS.

## Contents

1. [The system](#the-system): components, state, operations, interactions
2. [What is hard about it](#what-is-hard-about-it)
3. [The modules](#the-modules) and how they correspond to the code
4. [The runs](#the-runs), their bounds, and what each shows
5. [Fairness and trust](#fairness-and-trust)
6. [What is proved](#what-is-proved)
7. [What the code does that it says it does not](#findings)
8. [What is not modelled](#what-is-not-modelled), and [the plan](#plan)

To repeat everything, in this directory: `tlc -config <cfg> <module>` for each run
of the table below, and `tlapm <module>` for the eight modules whose name ends in
`Proofs`.

## The system

```
   web server                      mycgi (one thread)                       decoder
  ------------        ------------------------------------------------     ---------
  connection  ----->  web_accept -> web_pro -+-> pro_guide  -- commands -->
              <-----     (answer)            |     reads *guide              command FIFO
                                             +-> pro_config -- commands -->
                                                   (16 setters) -- password file
                            event loop
                                             deal_pro  <------ reports ----
                                               input_hcnoem4p               report FIFO
                                               writes *guide
```

| Component | Code | State | Operations | Correct when |
|---|---|---|---|---|
| Event loop, start-up | `mycgi.c` | `cgi_eb`, `fd[2]` | `main`, `wconnect`, `deconnect`, `web_accept` | start-up ends; every request is finished; reports are read; the daemon and the decoder never wait for each other |
| Report stream reader | `oem6/deco.c` (`input_hcnoem4p`, `sync_oem4`, `crc32`) | the frame buffer of one call | one call reads one frame | a frame handed on is one that was sent, in order, once; a bad frame costs no other |
| Report decoders | `oem6/deco.c` (`decode_*`), `include/deco.h` | none | one per kind of report | a field is read from its place |
| Report store and handlers | `deal_pro.c`, `pro.h` | `*guide`, a `guide_t` | `deal_pro`: `rboard`, `rsat` (`getpossend`, `actionsend`, `possend`, `tracesend`), `rinter`, `rchansta`, `rdirec` | the parts derived from one report agree with each other and with the report |
| Guide pages | `web_pro.c` (`pro_guide`) | reads `*guide`; `getip` changes it | twelve pages, each asking for its log | an answer is what was reported; reading a page keeps its report coming |
| Configuration commands | `web_pro.c` (`pro_config`) | none of its own; the decoder's | fifteen setters of up to 155 commands each, and `setpassword` | all of a change or a known part of it is written |
| Query parser | `url_parser.c` | a buffer of 4096 bytes | `url_parse`, `url_decode`, `get_param_value`, `get_param_array` and the loops over it | the value found is that of the name asked for; a list is found whole, in order |
| JSON values | `parson.c` | values on the heap | make, set, remove, copy, free; parse and print | every value has one owner; what is written can be read back, and nothing else is read |
| Password file | `web_pro.c` (`setpassword`, `getpassword`), `parson.c` | one file | write, read | what was set is kept; never an old or half a password |
| Time and coordinates | `oem6/deco.c` | a table of leap seconds | GPS week, UTC, dates, degrees; ECEF to degrees | the week is that of the report, the date that of the calendar |
| Logger | `logger.c` | a file | append a line | nothing depends on it |

How they interact:

* **Everything is a callback of one loop.** The loop waits for the listening socket
  and the report FIFO, both level-triggered, and runs `web_accept` or `deal_pro`
  to its end. No two callbacks overlap, but every `read` and `write` in them blocks,
  so a callback may wait for another process while nothing else in the daemon moves.
* **The store is shared without copies.** `deal_pro` writes `*guide`, pages read it.
  A page writes `log ... ontime 1` to the decoder and answers at once, with what
  the store holds; what it asked for arrives in some later call of `deal_pro`.
* **The decoder is stateful and may be replaced.** Start-up asks it for four of the
  five logs. One that is restarted has forgotten them; only pages ask again.
* **The opens are a rendezvous.** `open` of a FIFO waits for the other end, so start-up
  proceeds in step with the decoder's own start-up, and depends on it opening
  the FIFOs in the same order.

## What is hard about it

`PROJECT.json` lists each hazard with its line and the properties that cover it.
They fall into seven groups.

* **Derived state that goes stale.** One satinfo report fills four parts of the store
  by four loops with their own resets and early returns; pages show them side by
  side. `getip` changes the string it answers from.
* **Reading a stream in pieces.** `read` may return less than was asked; the
  synchronisation code may stand inside a message; a decoder may die within
  a frame and another go on in the same FIFO.
* **Waiting.** A page that waits for room for its commands, a decoder that waits for room
  for its reports, a `read` for the rest of a frame that never comes, an
  `open` whose other end has died: each stops the whole daemon.
* **Restarts.** Commands fail between two commands of one page; logs are forgotten;
  a report that waited in the FIFO is handled after its sender's death.
* **Texts.** Escapes that must be decoded once, names that may stand inside others, strings cut off at the
  end of a file, halves of UTF-16 pairs.
* **Ownership.** A value belongs to its maker until a container has taken it, and the calls that may fail fail
  at several places.
* **Places and widths.** A satellite number of 16 bits kept in 8; a loop that
  writes four bytes to one place; a field read at an index a loop has left behind.

## The modules

| Module | Models | Lines modelled |
|---|---|---|
| `Guide` | the store, the report handlers, the pages | `deal_pro.c`, `web_pro.c` 20-648, parts of `deco.c`, `mycgi.c` 97-104 |
| `GuideProofs` | theorems about `Guide` | |
| `FrameFeed` | what the daemon relies on from its reader (abstract) | |
| `Oem4Stream` | the FIFO of reports and the reader, byte by byte | `deco.c` 216-235, 530-597 |
| `Oem4StreamProofs` | theorems: that `Oem4Stream` implements `FrameFeed`, and that a frame cut short costs no other | |
| `EventLoop` | start-up, the loop, and every blocking call | `mycgi.c`, `sendcmd`, the reads of `input_hcnoem4p` |
| `EventLoopProofs` | theorems about `EventLoop` | |
| `ConfigCommands` | the setters, as the commands each request writes | `web_pro.c` 650-1132 but `setpassword`; `url_parser.c` 152-204 |
| `PasswordFile` | the file `setpassword` writes and `getpassword` reads | `web_pro.c` 374-382, 953-978; `parson.c` 896-904, 1249-1267, 1493-1495 |
| `ConfigSystem` | `ConfigCommands` and `PasswordFile` as one system, whose daemon may be stopped | `web_pro.c` 1071-1132 |
| `ConfigProofs` | theorems about `ConfigSystem`: the password file, the number and the order of commands | |
| `JsonStore` | what parson promises of the values a program builds (abstract) | |
| `JsonTree` | values on the heap, and every call that makes, changes, copies or frees one | `parson.c` 297-443, 952-984, 1048-1229, 1347-1633 |
| `JsonProofs`, `JsonCallProofs`, `JsonStoreProofs` | theorems about `JsonTree`: who owns a value; what a call loses, and what it finds; that its calls implement `JsonStore` | |
| `JsonText` | the parser, the serializer, comments, comparison, validation | `parson.c` 217-294, 445-458, 502-946, 1269-1341, 1635-1748 |
| `Utf8` | bytes of strings and `\u` escapes | `parson.c` 144-215, 460-548 |
| `UrlParser` | the text of a query, decoded and searched | `url_parser.c` 12-134, 152-204 |
| `GpsTime` | dates, leap seconds, GPS weeks, degrees | `deco.c` 25-127, 177-214 |
| `Calendar` | day after day from 1970 on, for `GpsTime` to be tried on | |
| `GrowingTexts` | queries, strings and escapes that grow, for `UrlParser` and `Utf8` to be tried on | |
| `FunctionProofs` | theorems about `UrlParser`, `Utf8`, `GpsTime` and the modules that try them | |
| `MCGuide`, `MCOem4Stream`, `MCEventLoop`, `MCConfigSystem`, `MCJsonTree`, `MCFunctions` | the values TLC is given | |

`Guide` takes a callback as one step, which is what the single thread makes it;
`EventLoop` justifies that and looks inside the step at what may block;
`Oem4Stream` looks inside `deal_pro` at the bytes. What `Guide` assumes of its input
(reports whole, in order, none twice, some lost) is `FrameFeed`, and `Oem4Stream` is
shown to implement it. `EventLoop` knows a page by the number of its commands;
`ConfigCommands` says which they are, and that they are at most the 155 `EventLoop` counts on.
It takes a query as names and values, which is what `UrlParser` shows a query's text to be read as; `PasswordFile`
takes the password's text to come back as it was written, or not at all, which is what `JsonText` shows. `Arrives` in `Guide` allows any report of a log that was ever
asked for, which covers lost reports and those that waited in the FIFO.

### Guide

| Model | Code |
|---|---|
| `board`, `ip` | `guide->state`, `entype`, `serclient`, `net`; the string `net.ip`, apart because `getip` cuts it, as the sequence of the five numbers in it |
| `sateprn`, `posstate`, `tracetable` | the lists of satellites tracked, used, and the table; each constellation's array is a set of entries numbered by their place in the report, which keeps their order and their number |
| `basepos`, `interface`, `chansta`, `direcdata` | the members of those names |
| `rboard` ... `rdirec` | the five handlers `deal_pro` dispatches to, with all they call |
| `state` ... `getserclient` | the pages; `table` is the page `tracetable` |
| `Refused` | a page whose command could not be written |
| `getip_half` | the decoder dying between the two commands of `getip` |
| `unknown_page` | a name that is not in `guidetype[]`: `response` is not initialised, so either nothing is answered or the daemon ends |
| `decoder`, `logs`, `asked` | external: the decoder, the logs it was asked for, and those any decoder was ever asked for |
| `seen`, `readings` | history, read by properties only; `readings` counts the answers of `getip` since the last oemstatus report |

Positions, times, antenna states and the like are values without structure: the code
copies them. What the code does *to* a value is kept: numbers narrowed to a byte
(`Entry`), the station id read into one place (`decode_stnid`), `retype` read at
a wrong index (`decode_retype`), seconds taken from the wrong angle (`getpos`).

### Oem4Stream

The stream is the sequence of all bytes ever written; the FIFO is the part of it between
`rd` (read) and `vis` (written so far). `ReadSync`, `ReadHeader` and `ReadBody` are the three
reads of `input_hcnoem4p`; each takes what is there, up to what was asked for, so that a short
read is as possible as it is on a FIFO; of a length field that was not read whole the missing bytes count as 0 (`LengthAt`). `HungUp` is a read that returns 0.
`Return` is the end of a call, whose local frame buffer is gone with it. The checksum is ideal:
it accepts the bytes of one frame and nothing else; of CRC-32 itself only that it
is computed over the whole frame is used. The decoder (`SendFrame`, `SendNoise`, `Flush`, `Die`,
`Restart`) is external.

### EventLoop

`pc` is where the daemon is: in one of its two opens, subscribing, polling, dispatching the
events of a round, writing the commands of a page, in `deal_pro`'s reads, or ended.
`batch` is the set of events of this round whose callback has not run yet: libevent runs one callback for
each before it polls again, which the absence of starvation and of deadlock rests on.
A command is a token and a frame a number of pieces, numbered, since `deal_pro` stops
reading at the end of a frame. `phase` says whether the call looks for a code, reads the frame it has found, or has gone *astray*: it takes
something else for a frame, or a frame for longer or shorter than it is. A read that empties the FIFO may have come up short. If that was the header, the
length is wrong and the call ends anywhere; if it was the rest, the call ends inside the frame. Either way the next call searches what is left of the frame,
piece by piece, for a code, and waits for more when the FIFO is empty. With `CODES` such a search may find a code in a message.
`reads` counts the reads of one call, bounded by `MAXREADS` (the 4097 single bytes, the header and the rest, in the code). Every wait of the daemon is
a guard: `OpenCmd` and `OpenRep` on the decoder's opens (`OpenFails` is an open or the making of a FIFO that fails at once, and is not what ends a wait), `WriteCmd` on room in the command FIFO,
`Read` on there being something to read or a hang-up.

### ConfigCommands

`pro_config(r)` translates a request to the sequence of places its setter goes through; a place is the set
of commands that may be written there. Mostly that is one command, or none (`Skip`, for a value of 0).
A place whose array entry the query did not fill has what any value of an unwritten array
(`Junk`) would call for: `satset`, `channelset`, `antnset` and `ioset` read such entries, and no list at all is read into
`satset`'s row of Galileo satellites. `Write`, `WriteFails`, `Pass` and `Return` step through the places; the decoder
may die and come back between any two. A request is its query, a sequence of names and values, and the query's tail, the parameters at its end that
decoding may leave behind it in the buffer: `get_param_value` finds the first of a name in the query,
`Listed` is what the loops over `get_param_array` collect from both. Values that the code keeps in a `char` are taken modulo 256 (`Char`): 256 is as good as 0.
Command texts and number formats are left out; what is kept is
which command, about what, with which values, and in which order.

`AskedInOrder` compares what is sent with what the query's own lists ask for (`Asked`), leaving out commands about places the query gives no value for
(`Unasked`): these the code sends as unwritten arrays and tails have it.

### PasswordFile and ConfigSystem

`setpassword` opens the file, which cuts it to nothing (`Broken`), and its text gets there when the file is closed
(`Closed`): one `fputs` of a text shorter than the buffer. In between the daemon may be stopped (`DaemonStops`) or the disk be
full (`DiskFull`). `OpenFails` leaves the file alone and is reported as a success, since `json_serialize_to_file`
returns `JSONSuccess` there. A text is of one of three kinds: plain, with a control character that parson prints
as it is and refuses to read, or not UTF-8, which `json_object_set_string` refuses without anybody noticing. `newest` and
`disturbed` are history. In `ConfigSystem` callbacks do not overlap: `ReadPassword` waits until a request is served.

### JsonTree

`heap` is the memory for values: what each block holds, an object's names and values as two sequences that the code must
keep parallel, and the places allocated. `held` are the values the caller owns. Every call is an action with all its
failures: `mem` is how many more allocations for places and names succeed, and runs out anywhere along a dotted name; a value is made
only if there is a block for it. The `set`, `dotset`, `append` and `replace` calls for strings, numbers, booleans
and null are one action each (`..._scalar`); the index of an array or the dotted name is chosen freely. `json_clear` is both `json_object_clear` and
`json_array_clear`. `ParseContainer` and `ParseRefused` are the calls of the parser as far as ownership goes: a container is read, or an entry is refused (its name is there already, the
container is at its limit, memory is missing) and what is in it is lost. `DiesGrowing` is the end of the program in `json_object_resize`, which tests the memory for names twice and that for values never.
The caller keeps to `parson.h`; it never gives away a value twice. `Contents` forgets capacities and the order of entries, and
`ImplementsStore` shows that what is left behaves as `JsonStore`.

### JsonText, Utf8, UrlParser, GpsTime

Functions without state. Each module translates the code first and then states, from the standard the code follows and not from the
code, what it should do; its properties compare the two.

* `JsonText`: a text is a sequence of characters, the words `true`, `false`, `null`, `inf` and `nan` counting as one. The reference is the grammar as a set of values
  that a text denotes (`Denoted`), found by trying every place to split it. A number is a decimal number, not the double next to it; `Near` compares two to a millionth as the code does.
  `Misleads` names the line comments that the first pass of the removal takes for something else.
* `Utf8`: the reference is Unicode's table of well-formed sequences and the places a string can be cut at (`IsText`), and for escapes the code points that pairs
  and single ones name (`Named`), to be spelled by the bytes put (`Spelled`).
* `UrlParser`: characters are those that matter and two others. The reference splits the query at `&` (`PieceFrom`), takes each piece for signs that know whether they
  were escapes (`Signs`), and looks for the first `=` that was none (`ValueIn`, `ValuesOf`); the code decodes first, in place, and searches what has come of it.
  `url_parse` is the buffer then: the decoded query, a zero, and behind that the end of the query as it was. The loops over `get_param_array` look into it, since their length
  is never shortened, so `ListIsCollected` says that they find the values of the query first, all and in order, and more only where decoding left something.
  `Sane` names the two kinds of query about which the two differ.
* `GpsTime`: times are days and seconds, without fractions, angles whole seconds. The reference counts days by the Gregorian
  calendar (`NextDate`), leap seconds as the entries that have passed.

The loops of `Utf8` and `UrlParser` are functions on the places of a text (`ValidFrom`, `EscapedFrom`, `DecodedFrom`, `ArrayFrom` and their like): what a loop yields from a
place on. `Calendar` puts `GpsTime` on days that follow one another by the Gregorian calendar, and `GrowingTexts` lets queries, strings and escapes grow piece by piece for
the other two. `MCFunctions` joins both and has `JsonText` as an instance: a behaviour takes a subject and lets an input for it grow, or the days pass.

## The runs

Deadlock is checked in the `EventLoop`, `ConfigSystem` and `JsonTree` runs. It is not in the others, whose systems may stop:
in `Guide` after `unknown_page` has ended the daemon, in `Oem4Stream` at the end of
the stretch of stream explored, in `MCFunctions` when an input has reached its bound.

| Run | Asks | Bounds |
|---|---|---|
| `satellites` | `TypeOK`, `UsedAreTracked`, `TableMatchesAction`, `ChannelPageTruthful`: do the parts of the store derived from one satinfo or channelinfo report agree, in every order of reports, pages, deaths and restarts? | three satinfo reports: none, one satellite on two signals and one unused, three constellations with a number over 255; two channel reports; two interface reports; 106,551 states |
| `pages` | `IpReplyIsCut`, `AnswerKeepsItsLogAlive`, `FirstHeadingIsZero`, `HealsAfterRestart`: what do pages answer, what do they keep coming, and do they bring all logs back after a restart? | two boards with no number in common, so a wrong cut shows; one report of each other kind; 260,155 states |
| `ip`, `tracked` | two of the [findings](#findings) | as above |
| `pieces` | `TypeOK`, `LossIsLocal`, `DeliversReports`: when frames arrive in pieces, which are lost? | 27 bytes, up to three frames, cut everywhere, and a decoder that dies anywhere in them and comes back; 1,258,664 states |
| `noise` | `DeliversReports`, with synchronisation codes inside messages and between frames, and deaths | 29 bytes, a buffer of 12, a search of 9 bytes; 1,483,644 states |
| `crashes` | `TypeOK`, `EveryRequestFinished`, `ReportsAreRead`, `StartupEnds`, with a decoder that dies, comes back or stays away, short reads and false synchronisation codes | two connections, two commands a page, FIFOs of one place, frames of two pieces, calls of three reads, two deaths; 8,357 states |
| `alternating` | `NoEmbrace`, `EveryRequestFinished`, with a decoder that does one thing at a time | the smallest FIFOs that suffice: commands 6 = 4 + 2, reports 4; 5,729 states |
| `commands` | `TypeOK`, `AskedInOrder`: does the decoder get what was asked for, in order, up to the first write that fails? `PasswordKept`, `AnswerIsNewest`: does the password file hold what was set last, or nothing? | lists of 2 satellites for 30; every setter, with full lists, short lists, missing names, tails, and values over 255; seven passwords of every kind of text; 448,972 states |
| `direction` | the third [finding](#findings) | both types, with and without a baseline |
| `json` | `TypeOK`, `OneOwner`, `SetIsFound`, `LossOnlyWhere`, `ImplementsStore`: whatever is called in whatever order, and fails where it may, has every value one owner, is a value found where it was set, and which calls lose one? | four values, two names, dotted names of two, capacities of one place that double once; 6,574 states up to symmetry |
| `functions` | thirteen properties, one for each question asked of `UrlParser`, `Utf8`, `JsonText` and `GpsTime` | texts of four tokens, documents of up to three levels, every edit of six documents, every day up to 2038; 407,938 states |

Why these bounds are enough:

* `Guide`: a report replaces what the last of its kind left, so two different
  reports of a kind reach every stale combination; the third satinfo report is the empty one, which
  is the interesting case. `getip` can cut a string of five numbers four times, and the run has no bound
  on how often it is read.
* `Oem4Stream`: the lengths are scaled down (a header of 6 for 28, a search of 9 or 13 bytes
  for 4097, a buffer of 12 or 20 for 4096) and keep their order: a frame fits the buffer, the longest length
  field does not, a search may end within a frame. `MAXOUT` bounds the stream and `MAXFRAMES` the frames.
  `pieces` and `noise` are apart because their product is out of reach; the theorem
  `ReaderImplementsFeed` covers both at once. `LossIsLocal` speaks of streams in which no frame was torn by a death and no
  message holds a synchronisation code: only there is a loss confined to the frame that was read short.
* `EventLoop`: one place in each FIFO makes every write wait; two connections let one wait
  behind another; two deaths let the decoder die during start-up and again in the loop.
  `MAXCRASHES` bounds the deaths and `MAXCMDS` the commands of a page. `TypeOK` of
  `crashes` is the bound on the reads of a call. The FIFO sizes of `alternating` are the
  limit: with one place less for commands TLC finds the embrace. The code's pipes hold 64 KB, a frame is at
  most 4 KB, and the longest page, `satset`, writes 155 commands, about 3.3 KB.

* `ConfigCommands`: requests do not interact, so one of each shape is enough; two satellites tell a wrong
  row, place or order apart; four `Junk` values are the four cases the code tells apart. That lists are 30 long matters
  to the bound of `TypeOK` only (`5 * MAXPRN + 5`).
* `JsonTree`: four values make a tree of three levels beside a value to put into it; with a first allocation of
  one place and a limit of two, containers grow, are full, are trimmed by the parser and refuse. `MAXPATH` of two is a step on
  the way and a last one. Names and values are interchangeable (`Symmetry`).
* Functions: `MAXTOKENS` of four bytes is the longest UTF-8 sequence, with bytes on both sides of every boundary of the table. A query of four
  tokens starts empty or behind a first parameter, of escapes or not; the buffer of 24 (`URL_BUF_MAX_LEN`) is small enough that queries fill more than half of it.
  `MAX_NESTING` of 2 for 19 lets documents lie above and below. Tokens alone seldom make a document, so the six
  texts that are edited, character by character, start from one, three of them with an exponent or a word for a number. `Comments` has comments with a quote, an escape, a closing sign and the marks of both
  kinds, put at every place of every document; `Compared` has numbers less than, just, and more than a millionth apart, and minus infinity. `LASTDAY` is the day before the target's 32-bit seconds end, on 19 January
  2038; leap seconds are looked at on both sides of each midnight.

## Fairness and trust

Only `EventLoop` has fairness of its own. `WF(Daemon)`: the daemon is a process that the kernel
runs whenever it can proceed, and each of its states has at most one callback to go on with. `OpenFails` is not part of `Daemon`: an open that waits for its other end does
not fail by itself, so start-up ends only if the decoder comes.
`WF(DecoderOpens)`, `WF(TakeCommand)`, `WF(WritePiece)`: a decoder that is up, and stays up, opens its FIFOs, takes
commands and finishes frames it has begun; it need not begin one, need not start, may die at any time. No strong
fairness is used. `EveryRequestFinished` has one exception, `Silence`: `deal_pro` waits for bytes, and the decoder, which is up, has none to send and never sends any again.
Without the exception TLC shows the hangs there are. After a short read the rest of a frame is searched for a code, and the search waits behind its last byte. A torn frame
leads to the same. And the loop may find the report FIFO hung up and a new decoder open it before `deal_pro` reads: that decoder has been
asked for no logs, and the read waits with every page behind it. In each a decoder that goes on reporting ends the wait. The exception holds in `alternating` too, whose reads may also come up short.
`HealsAfterRestart` states as its premise what users and the decoder must do, and needs no fairness of the
specification.

Taken on trust, because the code does:

* Reports have the shape of `include/deco.h`, list no more than 32 satellites
  of a constellation and only channels 0 to 13 (`ReceiverContract`). The code checks neither.
* The checksum tells every frame from everything else.
* The decoder opens the FIFOs in the daemon's order, and removes neither.
* libfcgi ignores SIGPIPE, so that a write without a reader fails instead of ending the daemon.
* The configuration page sends no list longer than its array (`PageContract`), no number that is
  outside its table, no value too long for a command, and no query longer than half of its buffer of 4096 (up to that
  `CollectsTheListAlways` proves that `get_param_array` stays in the buffer, since the decoded query is no longer; beyond, it may search past its end). Of the buffer's size no more is assumed than that it
  is a number (`UrlAssumption`).
* The rest of a buffer of a query is zeros, as `pro_guide` and `pro_config` make it.
* A write of a command is whole or fails: commands are shorter than PIPE_BUF.
* Texts of the three kinds are different, and none is taken for the content of a file (`TextAssumption`); the account and
  the password of a request are such texts (`PasswordContract`).
* The password's text is written in one piece when the file is closed, being shorter than the buffer of a stream.
* parson's two limits, 960 and 122880, are the first capacity, 15, doubled a few times (`parson.c:35-37`), so that a container
  that doubles its places meets its limit exactly; NULL is neither a value nor what a container holds (`TreeAssumption`).
* The reader's lengths are in the order they have in the code (`StreamAssumption`): the header's 28 bytes hold the synchronisation code and the seven read behind it.
  `LossStaysLocal` takes in addition what its property is about (`RegularStream`): nothing but frames is written, no message holds a synchronisation
  code, a frame fits the buffer and a search.

## What is proved

For every value of the constants that satisfies the named assumptions. TLC checks every property below on a run's instance. The inductive
invariants are built over it; the smaller ones TLC checked too before they were proved.

| Theorem | Says | Rests on |
|---|---|---|
| `TypeCorrect` (`GuideProofs`) | `[]TypeOK` | inductive as it stands, given `ReceiverContract` |
| `UsedSatellitesAreTracked` | `[]UsedAreTracked` | `SatLists` |
| `PagesAgreeOnSatellites` | `[]TableMatchesAction` | `SatLists` |
| `IpAnswersAreCuts` | `[]IpReplyIsCut` | `IpInv` |
| `HeadingOnlyAfterGetdir` | `FirstHeadingIsZero`, an action property | `HeadingNeedsGetdir` |
| `ChannelsShownAreReported` | `[]ChannelPageTruthful` | `FlagsAreOfReport` |
| `AnswersRefreshTheirLog` | `AnswerKeepsItsLogAlive`, an action property | every step by itself |
| `StreamTypeCorrect` (`Oem4StreamProofs`) | `[]TypeOK` | `IInv` |
| `ReaderImplementsFeed` | `Spec => Feed!Spec`: the reader implements `FrameFeed` | `IInv` |
| `LossStaysLocal` | `[]LossIsLocal`: a frame cut short costs no other | `LossInv` |
| `LoopTypeCorrect` (`EventLoopProofs`) | `[]TypeOK`: the FIFOs and a call's reads stay within bounds | `TypeOK /\ Shape` |
| `NoEmbraceEver` | `[]NoEmbrace`, if the FIFOs have room (`EnoughRoom`), no frame is torn (`~ TORN`) and no message holds a code (`~ CODES`) | `IInv` |
| `FileTypeCorrect` (`ConfigProofs`) | `[]FileTypeOK` | `FileInv` |
| `PasswordIsKept` | `[]PasswordKept` | `FileInv` |
| `AnswersAreNewest` | `AnswerIsNewest`, an action property | `FileInv` |
| `CommandsAreBounded` | `[]TypeOK` of `ConfigCommands`: a request writes at most `5 * MAXPRN + 5` commands | `CommandInv` |
| `CommandsAreSentInOrder` | `[]AskedInOrder`: what was written about places the query has values for is the beginning of what was asked for | `CommandInv /\ OrderInv` |
| `TypeCorrect` (`JsonProofs`) | `[]TypeOK`: parallel arrays, distinct names, bounded capacities, until the program dies in `DiesGrowing` | `OwnInv` |
| `EveryValueHasOneOwner` | `[]OneOwner` | `OwnInv` |
| `NothingElseIsLost` (`JsonCallProofs`) | `LossOnlyWhere`, an action property: a value is lost only where a set scalar or an entry of a document is refused | `OwnInv`, `Kept` |
| `WhatIsSetIsFound` | `[]SetIsFound` | `OwnInv`, `GoesOn` |
| `CallsImplementStore` (`JsonStoreProofs`) | `Spec => ImplementsStore`: `JsonTree` implements `JsonStore` | `OwnInv`, `Changes` |
| `TextIsLetIn` (`FunctionProofs`), `LetsInWellFormedAlways` | for every string of bytes; `[]LetsInWellFormed` | `VerifiedIsCharacter` |
| `EscapesBecome`, `EscapesBecomeTextAlways` | for all escapes; `[]EscapesBecomeText` | `SpellsFrom` |
| `EveryParameterIsFound`, `FindsTheParameterAlways` | for every query and name; `[]FindsTheParameter` | `FindsTheFirst`, `EncodedIsFound` |
| `EveryListIsCollected`, `CollectsTheListAlways` | for every query and name; `[]CollectsTheList` | `CollectsAll` |
| `EveryLeapSecondCounts`, `LeapSecondsAreCounted` | for every time; `[]CountsLeapSeconds` | `LeapOrder` |
| `EveryWeekIsFound`, `WeeksAreFound` | for every time; `[]FindsTheWeek` | arithmetic |
| `EveryAngleIsShown`, `AnglesAreShown` | for every angle; `[]ShowsTheAngle` | arithmetic |
| `DatesAreKept` | `[]KeepsTheCalendar`: every day up to the end of 32-bit seconds | `CalendarInv` |

The arguments:

* **`SatLists`** is the conjunction of the two properties it proves. A report that lists satellites makes
  the three lists anew from the same entries; one that lists none leaves the tracked list and the table alone
  and empties the used list. `UsedAreTracked` is therefore true *because* `possend` has no early return
  and `actionsend` has one; the other way round it would be false.
* **`IpInv`**: `IpReplyIsCut` speaks of answers; what makes it inductive is `IpIsPrefix`, that the string
  in the store is at any time a prefix of the last report's, shorter than it by the number of readings since, as long as a dot is left.
* **`HeadingNeedsGetdir`**: a heading is in the store only if gputab was asked for, and that
  is asked for by `getdir` alone, since start-up leaves it out.
* **`FlagsAreOfReport`**: a flag in the store is that of a channel of the last report. It is inductive because `rchansta` erases all
  before it sets any; that the page's names then mean the right constellation is `TablesAgree`, a fact about the two tables of the code.
* **`IInv` of `Oem4StreamProofs`**: frames lie one after another in the stream (`FramesInOrder`), and all that was
  handed over lies before the place where the current call began, a torn frame having no end (`HandedBehind`). So a frame the
  checksum accepts at that place is later than any handed over. The proof covers
  every cut of the stream, all noise, all messages and any number of deaths.
* **`IInv` of `EventLoopProofs`**: call a frame *tight* if the part of it still to be written does not fit
  the report FIFO. A decoder that does one thing at a time has taken all commands when it begins a frame. From then
  until `deal_pro` has read a whole frame the daemon can write what is left of the page it is in, or of start-up,
  and one page more, because a tight frame means reports are waiting, so the next round runs both callbacks;
  and after `deal_pro` has read a whole frame nothing is tight. Reads that come up short, and calls that end inside a frame, are why a count alone will not do: the
  pieces in the FIFO and those to come are in order (`Numbered`); a call that reads a frame has read what lies before the piece it reads next, and one that has lost step did so when the
  FIFO was empty, so that a frame that is tight now was begun later, with all commands taken (`InStep`). `Budget` counts this; `EnoughRoom` is its sum,
  max(`NSTART`, `MAXCMDS`) + `MAXCMDS`, and TLC finds the embrace with one place less.

* **`FileInv`**: the file holds the newest text, or was cut to nothing for it: `file \in {newest, Broken}`. It is `Broken` while the text is
  still to be written, and stays so only if the daemon was stopped or the disk was full (`disturbed`). Neither
  property is inductive without this: `PasswordKept` says nothing of the file while it is being written, and `AnswerIsNewest` speaks of the moment of reading only.
  What is read from a file is the file's content or nothing (`ParsedOrNothing`), and `Broken` is no content (`BrokenIsNoObject`), so an answer is the newest
  text. The proof is for every set of texts and every request, over any number of stops.

* **`CommandInv`**: what has been sent and what is to come are sequences whose lengths add up to no more than the places of the longest setter
  (`PlacesBounded`, setter by setter). A place that goes brings one command at most. It rests on `PageContract` for the type of `ioset`'s data.
* **`OrderInv`**: what was sent, followed by what is still to come, can be taken for what was asked for, place by place (`Calls`): until a write fails
  nothing is passed over except what may be passed over. `AskedInOrder` itself forgets the places still to come, so it is not inductive.
  That a place's choices are the same before and after a step rests on the lemmas about `Without`, a recursive function over a sequence.

* **`LossInv`** of `Oem4StreamProofs`: as long as the decoder tears no frame, frames lie side by side in the stream, each as long as its length field says, and
  nothing but their beginnings looks like one (`StreamRegular`). The reader is in step with them (`ReaderInStep`): all behind it was handed over or cut by a short read
  (`Accounted`), a search that begins within a frame begins in one that was cut, behind its synchronisation code (`InTorn`), and none has read past the code of a
  frame still to come (`NotPast`); the last read of a call ends where the frame ends, or within it (`InBody`). `LossIsLocal` speaks only of the time
  between two calls, so all of this is needed to carry it through a call.

* **`OwnInv`** of `JsonProofs`: the heap is good (`GoodHeap`: every block has its shape, no two places of containers hold the same
  value, nothing freed is in a container) and the values the caller owns are roots of it (`Rooted`: they are there, different, and in
  no container). `OneOwner` counts places and says nothing of capacities, `TypeOK` nothing of places; a call needs both. What is freed with
  a value is found level by level, down to as many levels as there are values: that this is all of it (`WithinIsClosed`) is a count of the values
  found, one more a level. That a value is never in itself (`NotInside`, `NoEntryInItself`) follows from `OwnInv` for all that is reached from a root,
  and without it a call that frees the value it replaces could free its own container. That a capacity never passes its limit rests on the
  limits being doubled first capacities (`CapacityFits`).
* **`Kept`** of `JsonCallProofs` relates two heaps: what is there in the second and was reached from a root, or was not there, in the first, is reached
  from a root in the second. It composes, and every call but the two named in `LossOnlyWhere` keeps it, step by step.
* **`GoesOn`** relates two heaps in the same way: every entry of a name is the same in both. All steps along a dotted name keep it, and
  a replacement keeps it outside of what it frees. That a path that does not begin with the one that was set never comes by the place that
  was set is `OneWay`: in a tree two ways to one object are the same way.
* **`Changes`** of `JsonStoreProofs` relates two heaps with the roots of each: one container loses some entries with all that is in them and gets at most one, whose
  value was a root or is new; nothing else that is reached from a root differs. The mapping `Contents` is a function of heap and roots (`View`), in which what is in a value is what
  is within it on the heap (`TreeIsWithin`), so that a `Changes` is a step of `JsonStore` (`ChangesAreChange`). `HeapChanges` finds it in the blocks, once for all calls.
  It composes in the three ways the calls need: an allocation before it (`FreshChanges`), a change within what has just come, which is how objects are made along a dotted
  name (`ChangesDeeper`), and a value made and refused (`FreshDropped`). `WalkedIn` follows the dotted name. A scalar that is set and refused, and a document of which an entry is
  refused, are the steps a program sees nothing of (`NothingSeen`); its death is a step of `JsonStore` of its own (`End`).
* **Leap seconds** are put on a line: `LeapOrder` says that the table's entries, which the code searches from the last one on, lie more than 100 seconds apart, so that a
  time moved by the leap seconds so far never passes the next entry by it.
* **`CalendarInv`**: a day is the day of a month that its date says (`OnDate`), from which the next date follows. `MonthFound` then follows the code's loop
  through its table of 48 months, and `LeapSecondsAreCounted` and the like are the theorems for all numbers at the numbers of a day.

* **Texts.** A loop and its reference both walk a text of any length, and not in step: the code takes one byte, sign or character at a time, the reference a
  piece or a character of several bytes. Each walk is a recursive function on the places of the text, of which `Recursion` shows that its equation has a solution: a
  function that asks only for later places is gathered from the end of the text (`Leads`, `Follows`). What is said of all places is then proved from
  the last one to the first (`BackwardsTo`).
  * `TextIsLetIn`: where `verify_utf8_sequence` finds a length there is one character of the table and no other length will do, so a string that
    can be cut can be cut at those places only.
  * `EscapesBecome`: from any place that is not the second half of a pair, the bytes put spell what is named there and are let in, behind whatever bytes
    were put before (`SpellsFrom`). The bytes before have to be any: the claim for the whole text alone is of no use to its own induction.
  * `FindsTheFirst` and `CollectsAll` go from one `&` to the next. A piece of the query becomes one string of the buffer, ended by its zero (`DecodedPiece`, `Holds`), whose
    characters are the meanings of the piece's signs. `Sane` gives that the string has no zero inside and that its first `=` is the piece's, so the
    code finds the name in it just when the reference does (`NameWhereItHolds`), at its beginning and nowhere else, and what is read from there is the value (`StringWhereItHolds`).
    The claim carried from piece to piece is that the buffer ends in what the rest of the query is decoded to, wherever that begins (`EndsIn`).
    For a list, the loop goes on from each value found, not from a string's beginning: `ArraySkips` shows that nothing is found between the two. What it finds behind
    the decoded query comes after all of that, and what its reach is follows from the last place it finds.
  * `EncodedIsFound`: one escape stands for one character and is decoded to it (`EncodedIsDecoded`), and what is decoded is not looked at again.

Several of these follow a recursive function (levels, ways, the months of the table, the places of a request or of a text). Each is written as a function on the numbers,
has a lemma that states its equation, and is reasoned about by an induction over a set of numbers, the set of those of which the claim is true (`Induct`, `BackwardsTo`).

The provers found one fault of the models that TLC had not: `num_bytes_in_utf8_sequence` and `Bytes` were CASEs with overlapping guards, of which TLA+ may take any and TLC takes the
first. The theorems were false of them as written; the guards are now disjoint, as the `if`s of the code make them. (`PlaceAfter`, which no theorem is about, had the same
fault and the same correction.)

Only model-checked: liveness (`EveryRequestFinished`, `ReportsAreRead`, `StartupEnds`, `HealsAfterRestart`), which is
beyond the prover; and the five properties of `JsonText` (`ReadsBack`, `CutOffIsRefused`, `CommentsAreSkipped`, `ComparesContents`, `ReadsTheGrammar`), whose operators call
each other recursively, which the prover does not take.

## Findings

Three runs end in a counterexample, each against a comment of the code.

* `ip`: `getip` (`web_pro.c:470`) writes a NUL over the last dot of the string in the store. Its second reading between two
  oemstatus reports answers a shorter address, with a part of it as the port, under the names `ip` and `port` (`web_pro.c:471-472`). `pro.h:75` calls the members of `net_t` strings of their own.
* `tracked`: after a report without satellites the action page still lists those of the report before, because `actionsend` returns
  (`deal_pro.c:85`) before its reset. `pro.h:58-61` calls them the number of satellites and the satellites tracked.
* `direction`: `dirset` (`web_pro.c:843-845`) takes the word at `type + basebool` from `snb`, `swb`, `dnb`, `dwb`. `pro.h:160` has type 1
  for two frequencies: without a baseline the code then sends `swb`, with one `dnb`.

Divergences that are in the models as the code has them, without a run of their own:

* `decode_sat` (`oem6/deco.c:423`) reads four bytes of the station id into `stnid[0]`; `pro.h:106` calls the field the
  base station's id. The page `position` shows it.
* `json_validate` (`parson.c:1659`) compares the result for an element of an array with 0, which is `JSONSuccess`: it takes an array for valid if
  its elements are not. `parson.h:95-102` says otherwise. The program does not call it. `ComparesContents` says where it does as documented.
* `getpos` (`web_pro.c:367`) fills the seconds of the longitude from the latitude.
* `decode_retype` (`deco.c:519`) reads the port type at the index a loop left behind.
* `deg2dms` (`deco.c:103`) loses the sign of an angle within a degree of zero; `ShowsTheAngle` states what holds from one degree on.
* The table of leap seconds (`deco.c:25`) ends in 2012.
* Line comments (`parson.c:935`): block comments are removed first, and `parson.h:73` promises that both are ignored. A line comment that goes on as `//*` is not removed; one with `/*` in it
  blanks the document up to a later `*/`, be it in a string; one with a quote makes the first pass take strings for the rest and the
  rest for strings. `CommentsAreSkipped` holds for all others (`Misleads`).
* `json_object_resize` (`parson.c:346`) tests `temp_names` where `temp_values` is meant: without memory for the values the program writes to NULL (`DiesGrowing`).
* The parser loses what is in an entry it refuses (`parson.c:616-622`, `658-661`): it frees the entry's block and not what is in it.
* `strtod` (`parson.c:707`) lets `-inf` and `-nan` in, and `is_decimal` refuses `0e1`, which JSON has. `ReadsTheGrammar` states both.
* `json_value_equals` (`parson.c:1740`) compares numbers to a millionth; an infinite one differs from itself.
* The loops over `get_param_array` collect values twice when escapes shorten a query: of `x=%20%20%20&sys=7` the 7 (`url_parser.c:197`).
* Values kept in a `char` (`web_pro.c:705`, `760`, `871`, `891`, `1010`, `1037`): 256 is taken for 0.

## What is not modelled

* The logger (`logger.c`): it formats a line and appends it to a file; no state that the rest depends on.
* Vendored headers of libevent, libfcgi and rtklib, about 12,000 lines, which declare and do nothing; what the daemon uses of
  the libraries is modelled in `EventLoop`. `src/parson/parson.c` is a copy, byte for byte, of `src/parson.c`, and only the latter is built; `tests.c` belongs
  to the copy. The build files, and `record.c`, which is not built.
* ECEF to geodetic coordinates (`deco.c`): an iteration on floating-point numbers. Fractions of a second, for the same reason.
* `getparam`, `getparam_data` (`url_parser.c`), which nothing calls, and `decode_bestpos`, `decode_satvis`, whose results nobody uses.
* What lies behind an array whose index goes past its end: it is the compiler's affair. `ReceiverContract` and `PageContract` keep such inputs out.
* Reading from parson's values (`json_object_get_string` and the like) changes nothing; `json_value_get` and the lookup of names stand for all of it.

## Plan

Done: `Guide`, `Oem4Stream` with `FrameFeed`, `EventLoop` and their theorems; `ConfigCommands`, `PasswordFile` and `ConfigSystem` with the
theorems of `ConfigProofs`; `JsonTree` and the theorems about every safety property of its calls, and that they implement `JsonStore`; `GpsTime` for all times and days, `Utf8` and `UrlParser` for all texts; `JsonText`
against its reference definitions.

Left, in this order:

1. `JsonText` with its recursion written as functions on the places of a text, and `ReadsBack` for every value.
2. `CgiSystem`: `Guide` driven by `FrameFeed` and the callbacks of `EventLoop`.
