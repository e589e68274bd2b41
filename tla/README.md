# Verification of the quiet-route network monitor

This directory holds TLA+ modules, TLC configurations and TLAPS proofs about
the program in `src/`: a process that follows passenger events of the London
tube over STOMP/WebSockets and answers requests for quiet routes. The code is
the reference: every definition says in `PROJECT.json` ("map") which lines it
models. Header files are in `src/inc/network-monitor/`, sources in `src/src/`.

## The system

| component | state | operations | hard parts |
|---|---|---|---|
| `WebSocketServer`, `WebSocketSession` (websocket-server.h) | acceptor, `stopped_`, per session the stream and `closed_` | Run, Stop, accept loop; Connect, two handshakes, read loop, Send, Close | completions of an earlier run after Stop; a read error is ignored, the *next* read ends the loop; Close silences the session |
| `StompServer` (stomp-server.h) | `connections_` (session -> id, status), `sessions_` (id -> session), strand `context_` | Run, Send, Close, Stop; handlers of session connect, message, disconnect, server disconnect | two maps kept inverse by hand; callbacks run later than the events they tell of |
| `WebSocketClient`, `StompClient` (websocket-client.h, stomp-client.h) | step of the connection, `closed_`, outstanding writes, `subscriptions_`, strand `context_` | Connect, Subscribe, Send, Close; handlers of each step, of writes and of frames | Close while a step is outstanding; a subscription is saved when its *write* completes |
| `TransportNetwork` (transport-network.cpp) | stations with counts and edges, lines with routes | FromJson, AddStation, AddLine, SetTravelTime, RecordPassengerEvent, queries | partial failure; one edge per stop *and* route kept consistent |
| fastest route, quiet route (transport-network.cpp) | distances, predecessors, priority queue; found and potential paths | GetFastestTravelRoute, GetFastestTravelRoutes, GetQuietTravelRoute | change penalty, warm starts and excluded stops in Dijkstra; a variant of Yen's algorithm; unsigned arithmetic |
| `NetworkMonitor` (network-monitor.h) | client, server, network, `connectedClients_`, `lastErrorCode_` | Configure, Run, Stop, nine callbacks | two strands without mutual order; ends when no work is left |
| `main`, `env` (main.cpp, env.cpp) | exit code | environment variables, Configure, Run | an exception nothing catches; an error that is overwritten |
| `StompFrame` (stomp-frame.cpp) | `plain_`, and `command_`, `headers_`, `body_` as views into it | construction from a text or from parts, copy, move, assignment, destruction | views that outlive what they point into; an error half-way through parsing; a body delimited in two ways |
| JSON conversions, file-downloader, error texts, certificate | - | - | not modelled, see below |

Interaction: the process has one `io_context`, run by one thread, so a handler
is atomic and handlers interleave. The WebSocket classes call the STOMP classes
*synchronously*; the STOMP classes call their user (the monitor) by *posting*
to a strand, a FIFO queue each. The monitor calls back into the server and the
client from these callbacks. The monitor owns the network and calls it
synchronously.

What makes each part correct is listed with the runs below; the places where it
can go wrong are the "hazards" of `PROJECT.json`.

## Modules

- `WebSocketServer` - acceptor and sessions. `accepts` counts the outstanding
  `async_accept` operations by what is known of them; `stream` is how far a
  session has come, from the accept to the end of its read loop. An action
  constrains everything but `closed_`, because closing is what the STOMP layer
  does from within the handlers.
- `StompServer` extends it: a step is a WebSocket handler together with the
  STOMP handler it calls (`EndRead(s) == OnReadEnd(s) /\ OnWsSessionDisconnect(s)
  ...`), a posted callback with the calls the user makes from it
  (`RunCallback`), or a call from elsewhere. `owner`, `sent`, `announced` and
  `departed` are history.
- `ClientRegistry` - the abstract specification of the server: clients that are
  unknown, connected or gone, and a queue of news. `StompServer` implements it
  under the mapping `ClientState`.
- `StompClient` - both layers of the client in one module (the WebSocket layer
  has no other user), `phase` being the step of the connection. `doomed` are
  writes started on a stream that is not open: they cannot succeed.
  `Send` has its handler called directly where all other callbacks are posted.
- `ClientSubscriptions` - the abstract specification of the client: one connection,
  the fate of each subscription (new, asked, saved, failed, dropped) and a queue of
  news. It knows no writes, frames or map: `StompClient` implements it under the
  mapping `Link` and `Fates`, which reads a fate off `requested`, `writes`,
  `subscriptions_` and what was told.
- `NetworkMonitor` extends `StompServer`, whose user it is, and instantiates
  `StompClient`. `process` follows Configure, Run and Stop, or the exception that
  ends the process; `ExitCode` is what main returns.
- `StompFrame` - a text is a sequence of tokens, `ParseFrame` the parser,
  `Render` the printer, and an object has a text, the members read from it and
  `at`, the object whose memory the members point into. `Readings` says without
  a parser what a text is a frame of.
- `TransportNetwork` - the graph. A `RouteInternal` is an object in the code; its
  number, in the order they are made, stands for its identity. The edges of a
  station are a set, since a route object has at most one there; their order in
  the vector is the order of these numbers, and `First` is the front of it.
- `Journeys` - the data shared by the two searches and the reference: all
  journeys that pass no station twice. `NetworkOk` says what a network of routes
  is: finite, no edge from a station to itself, and each route's edges follow one
  order of its stations (transport-network.h:54: a route has each stop once).
- `FastestRoute` - Dijkstra, one visit per step; `QuietRoute` - Yen's variant,
  one spur search per step, where a search returns any best journey.
- `MC...` modules hold the inputs and symmetry sets of the runs.
- Proofs: `StompServerProofs` about the server, the WebSocket layer under it and
  the registry above it, `StompClientProofs` about the client
  and the promises above it, `MonitorProofs`
  about the process composed of the two, `StompFrameProofs` about frames,
  `TransportNetworkProofs` about the graph, `JourneyProofs` about paths (lemmas
  only), `FastestRouteProofs` and `QuietRouteProofs` about the searches.

Before a definition that a plausible slip in the code would change, a module
also keeps a *variant* of it ("A variant that ..."), used to test that the
properties notice the slip; no behaviour uses a variant.

## Abstractions

Frames are the kinds a receiver tells apart; ids, stations and edges are model
values or records. The server's `FrameKinds` covers every branch of
OnWsSessionMessage. Logging, names, wording and the server's request ids are left
out. A
write of the server is atomic, so overlapping writes on one stream are outside
the model; the same holds for the lifetime of buffers. In the client a write is
outstanding until it completes, and the reply to a frame is read after the
write of that frame has completed. A failed read leaves a stream on which the
next read is aborted, as the library does. Travel times are added without
overflow (minutes, far below 2^32); passenger sums wrap at `UnsignedMod`.
The id in a callback says whose handler it is; the handler of a failed
subscription is passed an empty one (stomp-client.h:453-457), and the monitor
does not use it. Routes have at least two stops, none twice.

The two limits of a quiet route are products of an unsigned number and a double,
cut off to unsigned. A percentage is a whole number of per cent, so the exact
product is a multiple of 1/100 and the double differs from it by far less: cut
off, it is the same, unless the exact product is a whole number and the double
falls just short of it. `Truncated` is the exact quotient less one for these
pairs, and `Shorts` is the set of them: `MCShorts` has those of IEEE 754 double
precision that the runs meet (45 * (1 + 0.4) is cut off to 62, 5 * (1 - 0.8) to
0), and the proofs hold for any such set.

In `StompFrame` a command, a header name or a numeral is one token that is
recognised only alone, since the code compares whole substrings; a numeral may
be too large for a `size_t`. Names and contents are otherwise a few words. What
matters of memory is which object's string a view points into: a copy has its
own, a moved string longer than the inline capacity takes its memory along, a
shorter one does not, and a view into a string that was released or overwritten
may read as anything.

## Runs

| run | what it checks | bounds |
|---|---|---|
| `StompServer` | `MapsInverse`, `RegisteredIsLive`, `CallbackOrder`, `DepartureIsReal`, `ReplyOrder`, `NeverSilentlyDeaf`, the layer below as allowed (`WsSpec`), `ImplementsRegistry` | 2 sessions, 2 ids, 2 calls of Run, 1 message waiting, 1 SEND per connection: two clients and a restart with leftovers of the first run |
| `StompServerLive` | `BreakIsReported`, `StopDrains` | one call of Run, no SEND, without symmetry |
| `StompClient` | `SubscriptionsAccounted`, `FailedIsNeverLive`, `EndIsReported`, `ImplementsSubscriptions`, `OnlyTlsMayHang`, `RequestsAreAnswered` | 2 subscriptions and 1 Send; a frame is read when no callback waits, other posts are not bounded |
| `FastestRoute` | `PreviousIsExact`, `ResultIsBest`, `AnswerAddsUp`, `SearchEnds` | 3 routes over 4 stations, times 0, 1, 6 (none, less and more than the penalty of 5), every target and pair of excluded stops, every start at a station (in some networks one that no route serves) or where an edge leads |
| `QuietRoute` | `PathsAreJourneys`, `PathsWithinLimit`, `DetourIsWorthIt`, `SearchEnds` | 4 routes over 4 stations, detour at most 100 %, 25 % quieter, 3 or 20 paths; three ways with a detour of exactly 40 % and a path exactly 80 % quieter, where the limit falls short of the whole number |
| `TransportNetwork` | `RoutesAreWalkable`, `RoutesListedOnce`, `LoadedTimesAgree`, `LoadIsComplete` | 3 stations, 3 lines (both ways; one that needs all stations; one with a route twice), 6 route objects made (AddLine called three times at most for lines of two routes), all files of these with up to 2 travel times |
| `NetworkMonitor` | `ListedAfterNews`, `NeverRelisted`, `FinishedMeansDown` (with the exit code), `ComponentsKeepTheirSpecs`, `FailureEndsRun` | 1 session, 1 subscription, 1 message waiting |
| `StompFrame` | `ReadsItsText`, `Verdict`, `PartsComeBack` | 2 objects; every combination of a start, up to two header lines and an end, good or bad; parts with empty values, colons, line ends and null octets; strings of up to 15 bytes inline. A behaviour begins with any of these and goes on with 2 texts, one long and one short. Three objects take too long; the proofs are for any number |

The server, the client, the network and the process have a type invariant each,
checked with the rest; that of the fastest search is proved (`SearchTypes`). Deadlock is not
checked: every one of these systems may stop (a closed client, a finished
search, a process that ended).

The bounds are small because the conditions in the code are about one session,
one id or one subscription; two of each give the interference between them, two
runs the interference of a run with the next. The path networks are the smallest
that have alternatives with and without a change of route, both directions, and
ties.

### Disagreements with the comments

Four runs end in a violation; each checks a sentence of the repository.

- `ProtocolError` - a connected client that breaks the protocol is *not*
  reported to onClientDisconnect (stomp-server.h:155-157): CloseConnection
  erases it first and closing the session silences it. In the process it stays
  in the list of connected clients.
- `MissedPath` - not all paths within the limit are found
  (transport-network.h:487-489): the prefixes compared before a spur search
  leave out the spur stop itself.
- `NegativeCount` - counts may be negative but are summed as unsigned
  (transport-network.cpp:980).
- `LostSubscribeError` - OnSubscribe overwrites its error with kOk
  (network-monitor.h:424).

Other behaviour met while modelling that the comments do not lead one to expect:

- Server: onDisconnect closes no client, although stomp-server.h:158-160 says
  that all are disconnected; a session in its handshakes survives Stop; the abort
  of a stopped accept loop, handled after the next Run, calls onDisconnect;
  CloseConnection sends an ERROR frame about an unsupported frame whatever the
  error was (stomp-server.h:588-592).
- Client: closing it while it connects does not keep it from connecting; an
  unparsable frame is told to onConnect as an error even after a success; the
  handler of a Send is called in the WebSocket handler and not posted as the
  others are (stomp-client.h:307), so it overtakes them.
- Frames: a text that ends with the colon of a header makes the parser throw
  (stomp-frame.cpp:391) where the header announces an error code; a content
  length that does not fit a `size_t` is taken for 0 by the parser and compared
  uninitialised by the validation; an assignment whose text does not parse leaves
  the old members (line 301); a short frame that was moved has members that point
  into the object it came from; values with line ends are written unescaped.
- Network: an AddLine refused at a later route leaves the edges of the earlier
  ones (transport-network.cpp:254), and GetRoutesServingStation lists them
  (line 322): the id of a route of no line, and, once the line is added, an id
  twice. `RoutesListedOnce` counts them apart, as `Strays`; a line added after its neighbours' travel
  times has times of 0 until they are set again (files set them last, see
  `LoadedTimesAgree`).
- Quiet route: a path with exactly the travel time or the crowding that the
  percentage allows may be refused (see the products above); the candidates are
  not always found in order of travel time and may pass a station twice, which is
  why `PathsWithinLimit` compares each of them with the first only.

## Fairness

One thread runs the I/O context until it has no work, so a handler that is ready
runs: weak fairness of the posted callbacks and of the handlers of completed
operations. An operation completes by itself when it has a timeout (TCP 5 s,
WebSocket handshakes, the server's TLS handshake 30 s) or when its stream is
broken or being closed; `Fairness` says so for exactly these. A healthy read
and a waiting accept need not complete. The client's TLS handshake has no
timeout (websocket-client.h:214-236): it gets no fairness, and `OnlyTlsMayHang`
says that it is the only such step. The searches run in one loop: weak fairness
of Next.

## Proofs

TLAPS checks the theorems below for all sets of sessions, ids, subscriptions,
networks, lines, files, texts and frames and for all bounds. They rest on the named assumptions
of the modules only:

- `NoIdAssumption`, `HasOnMessageAssumption`: `NoId` is not an id, `HasOnMessage`
  is a Boolean;
- `IdsAssumption`, `ClientIdsAssumption`: the ids of requests, of subscriptions
  and of the connection's own frame are different, as random UUIDs are taken to be;
- `SearchesAssumption`, `ParametersAssumption`: the networks searched are
  `NetworkOk`, see above; a search starts at a station or goes on where an edge
  leads (`SearchOk`), which `SearchesStayLegal` shows of the quiet route; the
  percentages of a quiet route are natural, the quietness at most 100; a product
  that falls short stands for a positive whole number, and is not one by 100 %,
  which is exact;
- `LinesAssumption`: a route has at least two stops, none twice
  (transport-network.h:54);
- `FilesAssumption`: a file has stations, then lines, then travel times, which is
  the order of the three loops of FromJson (transport-network.cpp:159-213);
- `NumeralAssumption`, `TextsAssumption`, `PartsAssumption`: a numeral is a natural
  number or too large for a `size_t`; texts are finite; a frame is made from a
  known command, finitely many known headers (StompCommand and StompHeader are
  enums) and finite texts.

**Server: maps and sessions** (`StompServerProofs`). `TypeCorrect`,
`MapsStayInverse` and `RegisteredStaysLive` all come from `StructInvariant`:
`Spec => []Struct`. None of the three is inductive alone. `MapsInverse` breaks if
a handshake ends on a session that is registered already, which
`RegisteredIsLive` excludes (a registered session is past its handshakes), and if
a generated id is in use, which `OwnersMatch` excludes (a registered id has an
owner, a generated one has none yet). `RegisteredIsLive` needs `ClosedIsKnown`:
were a session closed during its handshakes, it would be registered closed. The
proof has a lemma per handler; `QuietKeepsMaps`, `UnregisterKeepsMaps` and
`RegisterKeepsMaps` carry the three ways a step treats the maps.

**Server: below and above.** `StompServerProofs` also shows `NeverDeafInSilence`, with
the extra fact that the flag of Stop is not set while the acceptor listens, and
`UsesWebSocketLegally`: `StompServer` implements `WebSocketServer` with a user
that closes only sessions it knows. It shows `CallbacksInOrder` and
`DeparturesAreReal` from `QueueInvariant`, which relates the queue to the maps:
nothing is said of an id that is not connected yet, a connected one has been
introduced, and whoever is said to have left had a session that ended by itself
and is in no map. It shows `RepliesInOrder` (what is written to a
session fits the status of its connection, and a session has one id for ever) and
`ServerImplementsRegistry`: every step of the server is, under `ClientState`, a
step of `ClientRegistry` or leaves it as it is.

**Client** (`StompClientProofs`). `NoSubscriptionLost`, `FailureIsFinal` and
`EndOfConnectionReported` from `ClientInvariant`: a subscription is at one place,
being written, saved or told of (`Accounts`); the end is told exactly when the
loop has ended (`EndIsTold`); after it the queue holds failures only
(`DisconnectIsLast`). `ClientKeepsPromises` is the refinement: every step of the
client is a step of `ClientSubscriptions` or leaves it as it is. It needs the same
invariant, with one part that no property of the run does: nothing written before
the stream was open is saved (the last part of `Accounts`), so that a subscription
is saved on a connection that is up or was. The order of two steps matters most
where a write completes after Close: the subscription is then saved on a closed
client, which `Closes` allows (what is only asked for may be saved yet), but has news
only while the read loop runs, and the end is not told.

**Process** (`MonitorProofs`). `ProcessKeepsSpecs`: `MonitorSpec` implies the
specification of the server and that of the client, so every theorem above holds
in the process. On that rest `ClientsAreListed` and `ClientsAreNotRelisted` (the
list follows the order of the callbacks) and `RunEndsDown`, which needs that by then
the client was started and the acceptor listened, that the monitor closes the
client only after it heard that it could not connect, and that nothing but an
end is heard while nobody was ever connected (`EndIsRecorded`).

**Search** (`FastestRouteProofs`). `PreviousStaysExact` and `SearchIsComplete`
from `SearchInvariant`. That a distance is the one along `previousStop` is not
inductive: it would break if the stop before were improved later. It is not,
because a stop that is not queued with its least distance is no farther than
everything queued (`Explored`), and rides take no negative time. The same part
says that the edges of such a stop have been followed, hence that an empty queue
leaves nothing faster. `FastestIsBest` goes on to the result: the path assembled
is a fastest one among *all* journeys that pass no station twice. The search may
itself pass a station twice, because the penalty makes the distance depend on the
route one arrives with. The lemmas of `JourneyProofs` close the gap: walks are
paths with repetitions; since a route is a line, a walk that comes back to a
station has changed routes and paid the penalty of 5, as much as the change that
the shorter walk may need, so cutting the loop is no slower (`LoopIsCut`,
`SimpleIsNoSlower`). Their induction is over sets of numbers (the least length of
a walk that is fast enough), with the well-foundedness of the naturals from the
library. `AnswersAddUp` relates the total told to the user to the steps told.

**Quiet route** (`QuietRouteProofs`). `QuietInvariant` says that every path found
or waiting is a walk from A to B, that the spur index stays inside the last path
found, and that the first path is a fastest one. From it come
`PathsStayJourneys` (root path and spur path fit, with the penalty at the spur
node, because a spur search starts with the stop and the distance the root path
ends with), `PathsStayWithinLimit` (nothing is faster than the first, by
`SimpleIsNoSlower`) and `DetoursAreWorthIt`. The last has a premise: that the sum
of passengers of each path is in the range of an unsigned int. It is needed: counts
may be negative, see `NegativeCount`. It also excepts by name a candidate exactly
at the percentage where the product falls short. Both rest on `TruncatedIsExact`:
apart from this one number, to be at most the truncated limit is to be at most the
percentage itself.

**Quiet and fastest route together.** `QuietRoute` takes for each search inside it
any of the `BestJourneys` (or no path if there is none). `FastestIsBest` is the proof
that the search of `FastestRoute` ends with one of these, for every search that
`SearchOk` allows; `SearchesStayLegal` is the proof that GetFastestTravelRoutes asks
no other: the spur node is never the end of a path (`SpursInside`), it is the origin
or where an edge of the network led, short of station B, and what is excluded are
stops that edges lead to. So the theorems about `QuietRoute` hold with the real
search in it.

**Network** (`TransportNetworkProofs`). `NetworkInvariant` is about the graph and
about the load in progress. For the graph: an edge belongs to a route object that
stops there and goes on to its next stop, one for each object (`EdgesOk`), and the
routes of the map have all their edges (`MapOk`); edges of objects that no map
refers to, left by a refused AddLine, are allowed. They do no harm to walks along
routes of the map, since a new attempt makes new objects with new numbers, but
GetRoutesServingStation returns the ids of their routes. This gives
`NetworkTypeCorrect`, `RoutesStayWalkable` and `RoutesStayListedOnce`: an id is
returned once for each route of the map that stops at the station and once for
each stray edge. The counting needs that the map has finitely many routes
(`RoutesStayFinite`), that the edges of a station have different numbers, and that
those of routes of the map correspond to the routes that stop there and go on
(`EdgesCountRoutes`). For the load: as long as no travel
time was read all are 0, and afterwards edges between the same two stations keep
the same time (`TimesOk`), so that the first edge GetTravelTime finds is as good as
any; what was read is in the network, the last time of a pair being the one
GetTravelTime gives (`ItemsDone`). This gives `LoadedTimesAlwaysAgree` and
`LoadsAreComplete`. Both rest on the order of a file: a line added after a travel
time would bring edges of time 0.

**Frames** (`StompFrameProofs`). Two independent halves. The parser: `ParseFrame`
finds what `Readings`, which knows no parser, says of the text, or an error when
there is no reading (`ReadFrame`, except for a content length that does not fit).
The loop over the header lines is a function of the position; its equation holds
because each line ends later than it begins (`HeaderLinesEquation`), and the result
from each line start on is what the rest of the text says (`LinesRead`), by
induction from the end of the text. `ConstructorDecides` follows. In the other
direction, a text made from parts has its lines where the lengths of the values put
them (`RenderedIsPrinted`), so that it is read as these parts (`RenderedIsRead`).
The objects: `FrameOk` says that a frame is right *while its views point into its
own text*, and that those of a text too long to be kept in the object always do. The
first part alone is what every operation keeps: an assignment that fails to parse
leaves members of another text, but then the views point elsewhere. For this the
object moved to must be taken to overwrite its memory, also when the source had
views into it. From both come `FramesReadTheirText` and `PartsAlwaysComeBack`.

Only model-checked: all liveness (`BreakIsReported`, `StopDrains`, `OnlyTlsMayHang`,
`RequestsAreAnswered`, `FailureEndsRun` and both `SearchEnds`), since TLAPS does not
prove liveness under fairness.

## Not modelled

- JSON conversions, the downloader, error texts and the test certificate: data
  layout, tables or pure I/O. A failed download is a branch of Configure.
- A second `Connect` of one client: the TLS stream of a client cannot be used for
  two connections, and the program makes one.
- Overlapping writes on one stream, and the lifetime of their buffers: whether
  they do harm is decided inside the TLS stream of the library
  (websocket-server.h:88 is listed as a hazard without a property).
- The server's onSend and onClose handlers for single operations, and the values
  of environment variables.
- The mocks and tests.

## Plan

Done, in this order, most important first: the server with its sessions and its
abstract specification; the client with Send and its own; the fastest and the
quiet route, and the two together; the network; the process that composes them,
its crash and its exit code; the frames; the proofs of server, client, process,
search, quiet route, network and frames. Every safety invariant and action
property that a run checks is proved.

Next: two sessions in `NetworkMonitor` by model checking (the proofs cover any number,
except for `FailureEndsRun`).
