------------------------------ MODULE StompFrame ------------------------------
(***************************************************************************)
(* STOMP frames as objects (src/inc/network-monitor/stomp-frame.h and      *)
(* src/src/stomp-frame.cpp): a text, and a command, headers and a body     *)
(* that were parsed from it once and are kept as views into it.            *)
(*                                                                         *)
(* A text is a sequence of tokens: line ends, colons, null octets, the     *)
(* names of commands and headers, numerals, and other words.  A name is    *)
(* recognised only when it stands alone, and no two numerals stand side by *)
(* side.  The tokens of a body are one byte long.                          *)
(***************************************************************************)
EXTENDS Naturals, Sequences, FiniteSets, SequencesExt, FiniteSetsExt

CONSTANTS
    Objects,        \* the StompFrame variables of a program
    Texts,          \* bound: what the first frame of a behaviour is made from
    FewTexts,       \* bound: what any frame may be made from
    Parts,          \* bound: commands, headers and bodies frames are made from
    Numeral,        \* numeral token -> its number, or TooLarge
    TooLarge,       \* the number of a numeral that does not fit a size_t
    Width,          \* token -> its length in bytes
    InlineCapacity, \* the longest string that std::string keeps in the object
    NoFrame, NoParts, Unspecified

ASSUME NumeralAssumption ==
    /\ Numeral \in [DOMAIN Numeral -> Nat \cup {TooLarge}]
    /\ TooLarge \notin Nat
    /\ Unspecified \notin Nat /\ Unspecified \notin Objects

IsText(text) == text \in Seq(Range(text))

ASSUME TextsAssumption ==
    /\ FewTexts \subseteq Texts
    /\ \A text \in Texts : IsText(text)

VARIABLES
    frame,          \* the objects; NoFrame before construction and at the end
    last            \* the text and the result of the last construction

vars == <<frame, last>>

NL == "NL"
COLON == "COLON"
NUL == "NUL"

Commands ==
    {"ABORT", "ACK", "BEGIN", "COMMIT", "CONNECT", "CONNECTED", "DISCONNECT",
     "ERROR", "MESSAGE", "NACK", "RECEIPT", "SEND", "STOMP", "SUBSCRIBE", "UNSUBSCRIBE"}

Headers ==
    {"accept-version", "ack", "content-length", "content-type", "destination",
     "heart-beat", "host", "id", "login", "message", "message-id", "passcode",
     "receipt", "receipt-id", "session", "subscription", "transaction", "server",
     "version"}

ASSUME PartsAssumption ==
    \A parts \in Parts :
        LET headers == parts.headers
        IN  /\ parts = [command |-> parts.command, headers |-> headers, body |-> parts.body]
            /\ headers = [h \in DOMAIN headers |-> headers[h]]
            /\ parts.command \in Commands
            /\ DOMAIN headers \subseteq Headers /\ IsFiniteSet(DOMAIN headers)
            /\ IsText(parts.body) /\ \A h \in DOMAIN headers : IsText(headers[h])

ToCommand(words) == IF words \in Seq(Commands) /\ Len(words) = 1 THEN words[1] ELSE "kInvalid"
ToHeader(words) == IF words \in Seq(Headers) /\ Len(words) = 1 THEN words[1] ELSE "kInvalid"

(* The headers each command must have (ValidateFrame).                     *)
Required(command) ==
    CASE command \in {"CONNECT", "STOMP"} -> {"accept-version", "host"}
      [] command = "CONNECTED" -> {"version"}
      [] command = "SEND" -> {"destination"}
      [] command = "SUBSCRIBE" -> {"destination", "id"}
      [] command \in {"UNSUBSCRIBE", "ACK", "NACK"} -> {"id"}
      [] command \in {"BEGIN", "COMMIT", "ABORT"} -> {"transaction"}
      [] command = "MESSAGE" -> {"destination", "message-id", "subscription"}
      [] command = "RECEIPT" -> {"receipt-id"}
      [] command \in {"DISCONNECT", "ERROR"} -> {}

-----------------------------------------------------------------------------
(* Parsing.                                                                *)

npos == 0

(* The first position of a token from a position on.                       *)
Find(text, token, from) ==
    LET places == {i \in from..Len(text) : text[i] = token}
    IN  IF places = {} THEN npos ELSE Min(places)

(* The number a value starts with (from_chars): what follows the digits is *)
(* ignored, and a number that is too large is no failure and leaves the    *)
(* result as it was.                                                       *)
StoI(value, result) ==
    IF Head(value) \notin DOMAIN Numeral THEN [ok |-> FALSE, result |-> result]
    ELSE [ok |-> TRUE,
          result |-> IF Numeral[Head(value)] = TooLarge THEN result
                     ELSE Numeral[Head(value)]]

Fails(code) == [ec |-> code]

(* A header line before the others: of several equal headers the first one *)
(* counts.                                                                 *)
WithHeader(headers, header, value) ==
    [h \in DOMAIN headers \cup {header} |-> IF h = header THEN value ELSE headers[h]]

(* The loop over the header lines from a position on: the headers and the  *)
(* place of the blank line, or the first error.  The colon is looked for   *)
(* beyond the end of the line, and reading the byte after it throws when   *)
(* there is none.                                                          *)
HeaderLines(text) ==
    LET lines[i \in 1..Len(text) + 1] ==
        IF i > Len(text) \/ text[i] = NL
        THEN [ec |-> "kOk", headers |-> <<>>, blank |-> i]
        ELSE LET colon == Find(text, COLON, i)
                 header == ToHeader(SubSeq(text, i, colon - 1))
                 end == Find(text, NL, colon + 1)
             IN  IF colon = npos THEN Fails("kParsingMissingColonInHeader")
                 ELSE IF header = "kInvalid" THEN Fails("kParsingUnrecognizedHeader")
                 ELSE IF colon = Len(text) THEN Fails("throws")
                 ELSE IF end = colon + 1 THEN Fails("kParsingEmptyHeaderValue")
                 ELSE IF end = npos THEN Fails("kParsingMissingEolAfterHeaderValue")
                 ELSE LET rest == lines[end + 1]
                      IN  IF rest.ec # "kOk" THEN rest
                          ELSE [rest EXCEPT !.headers =
                                  WithHeader(@, header, SubSeq(text, colon + 1, end - 1))]
    IN  lines

(* A variant that looks for the null octet also with a content length.     *)
BodyIgnoresLength(text, start, headers) ==
    LET end == Find(text, NUL, start)
    IN  IF end = npos THEN Fails("kParsingMissingNullInBody")
        ELSE IF \E i \in end + 1..Len(text) : text[i] # NL THEN Fails("kParsingJunkAfterBody")
        ELSE [ec |-> "kOk", body |-> SubSeq(text, start, end - 1)]

(* The body from a position on: as long as the content length says, or up  *)
(* to the first null octet; only line ends may follow it.                  *)
Body(text, start, headers) ==
    LET hasLength == "content-length" \in DOMAIN headers
        length == StoI(headers["content-length"], 0)
        room == Len(text) - start + 1
        end == IF hasLength THEN start + length.result ELSE Find(text, NUL, start)
    IN  IF hasLength /\ ~length.ok THEN Fails("kParsingInvalidContentLength")
        ELSE IF hasLength /\ length.result > room
             THEN Fails("kParsingContentLengthExceedsFrameLength")
        ELSE IF end \in {npos, Len(text) + 1} \/ text[end] # NUL
             THEN Fails("kParsingMissingNullInBody")
        ELSE IF \E i \in end + 1..Len(text) : text[i] # NL THEN Fails("kParsingJunkAfterBody")
        ELSE [ec |-> "kOk", body |-> SubSeq(text, start, end - 1)]

ParseFrame(text) ==
    LET eol == Find(text, NL, 1)
        command == ToCommand(SubSeq(text, 1, eol - 1))
        lines == HeaderLines(text)[eol + 1]
        body == Body(text, lines.blank + 1, lines.headers)
    IN  IF eol = npos THEN Fails("kParsingMissingEolAfterCommand")
        ELSE IF command = "kInvalid" THEN Fails("kParsingUnrecognizedCommand")
        ELSE IF lines.ec # "kOk" THEN lines
        ELSE IF lines.blank > Len(text) THEN Fails("kParsingMissingBlankLineAfterHeaders")
        ELSE IF body.ec # "kOk" THEN body
        ELSE [ec |-> "kOk", command |-> command, headers |-> lines.headers, body |-> body.body]

(* The results ValidateFrame may have on what was parsed.  The length it   *)
(* compares with the body is not initialised, so a content length that is  *)
(* too large may or may not seem to match.                                 *)
ValidateFrame(f) ==
    LET length == StoI(f.headers["content-length"], Unspecified)
    IN  IF ~(Required(f.command) \subseteq DOMAIN f.headers) THEN {"kValidationMissingHeader"}
        ELSE IF "content-length" \notin DOMAIN f.headers THEN {"kOk"}
        ELSE IF ~length.ok THEN {"kValidationInvalidContentLength"}
        ELSE IF length.result = Unspecified THEN {"kOk", "kValidationContentLengthMismatch"}
        ELSE IF length.result # Len(f.body) THEN {"kValidationContentLengthMismatch"}
        ELSE {"kOk"}

-----------------------------------------------------------------------------
(* Printing.                                                               *)

(* A variant that ends the headers without a blank line.                   *)
RenderWithoutBlank(parts, order) ==
    <<parts.command, NL>>
        \o FlattenSeq([i \in DOMAIN order |->
                <<order[i], COLON>> \o parts.headers[order[i]] \o <<NL>>])
        \o parts.body \o <<NUL>>

(* The text of a frame made from its parts, the headers in the order of    *)
(* the unordered_map, which may be any.  Nothing is escaped.               *)
Render(parts, order) ==
    <<parts.command, NL>>
        \o FlattenSeq([i \in DOMAIN order |->
                <<order[i], COLON>> \o parts.headers[order[i]] \o <<NL>>])
        \o <<NL>> \o parts.body \o <<NUL>>

-----------------------------------------------------------------------------
(* The objects.  "at" is the object whose memory the views point into.     *)

Empty(o) ==
    [plain |-> <<>>, command |-> "kInvalid", headers |-> <<>>, body |-> <<>>,
     at |-> o, parts |-> NoParts]
Exists(o) == frame[o] # NoFrame
Inline(text) == FoldLeft(LAMBDA n, token : n + Width[token], 0, text) <= InlineCapacity

(* What is left of a frame when the memory its views point into is         *)
(* released or written again: the command and the names of the headers.    *)
Dangle(f) ==
    [f EXCEPT !.headers = [h \in DOMAIN @ |-> Unspecified],
              !.body = IF @ = <<>> THEN <<>> ELSE Unspecified,
              !.at = Unspecified]

(* An object gets a new value, and so its memory new contents.             *)
Put(o, f) ==
    frame' = [q \in Objects |->
        IF q = o THEN f
        ELSE IF Exists(q) /\ frame[q].at = o THEN Dangle(frame[q])
        ELSE frame[q]]

(* The object with a new text and the members as ParseFrame leaves them:   *)
(* only a parse that succeeds assigns them.                                *)
Parsed(o, text, parts, old) ==
    LET f == ParseFrame(text)
        new == [old EXCEPT !.plain = text, !.parts = parts]
    IN  IF f.ec = "kOk"
        THEN [new EXCEPT !.command = f.command, !.headers = f.headers, !.body = f.body, !.at = o]
        ELSE new

Init ==
    /\ frame = [o \in Objects |-> NoFrame]
    /\ last = [text |-> <<>>, ec |-> "kUndefinedError"]

(* All three constructors that parse.  When parsing throws there is no     *)
(* object.                                                                 *)
Construct(o, text, parts) ==
    LET f == ParseFrame(text)
    IN  /\ ~Exists(o)
        /\ IF f.ec = "throws" THEN UNCHANGED frame ELSE Put(o, Parsed(o, text, parts, Empty(o)))
        /\ \E ec \in IF f.ec = "kOk" THEN ValidateFrame(f) ELSE {f.ec} :
                last' = [text |-> text, ec |-> ec]

FromText(o) ==
    \E text \in Texts :
        /\ text \in FewTexts \/ Init
        /\ Construct(o, text, NoParts)

FromParts(o) ==
    \E parts \in Parts : \E order \in SetToSeqs(DOMAIN parts.headers) :
        /\ Init
        /\ Construct(o, Render(parts, order), parts)

(* A variant that copies the views, as the default constructor would.      *)
CopyViews(o, q) ==
    /\ ~Exists(o)
    /\ Exists(q)
    /\ Put(o, frame[q])
    /\ UNCHANGED last

CopyConstruct(o, q) ==
    /\ ~Exists(o)
    /\ Exists(q)
    /\ Put(o, Parsed(o, frame[q].plain, frame[q].parts, Empty(o)))
    /\ UNCHANGED last

(* The text is replaced, and if the new one does not parse the members     *)
(* stay and point to where the old one was.                                *)
CopyAssign(o, q) ==
    /\ Exists(o)
    /\ Exists(q)
    /\ o # q
    /\ LET old == IF frame[o].at = o THEN Dangle(frame[o]) ELSE frame[o]
       IN  Put(o, Parsed(o, frame[q].plain, frame[q].parts, old))
    /\ UNCHANGED last

(* Moving takes a long text with its memory; the characters of a short one *)
(* are copied, and the views still point into the object moved from.       *)
(* Views that pointed into the object moved to are lost: it gets new       *)
(* contents.                                                               *)
Moved(o, q) ==
    LET takesMemory == ~Inline(frame[q].plain) /\ frame[q].at = q
    IN  IF frame[q].at = o THEN Dangle(frame[q])
        ELSE [frame[q] EXCEPT !.at = IF takesMemory THEN o ELSE @]

MovedFrom(q) ==
    [Dangle(frame[q]) EXCEPT !.plain = <<>>, !.headers = <<>>, !.parts = NoParts, !.at = q]

MoveTo(o, q) ==
    frame' = [r \in Objects |->
        CASE r = o -> Moved(o, q)
          [] r = q -> MovedFrom(q)
          [] OTHER -> IF Exists(r) /\ frame[r].at = o THEN Dangle(frame[r]) ELSE frame[r]]

MoveConstruct(o, q) ==
    /\ ~Exists(o)
    /\ Exists(q)
    /\ MoveTo(o, q)
    /\ UNCHANGED last

MoveAssign(o, q) ==
    /\ Exists(o)
    /\ Exists(q)
    /\ o # q
    /\ MoveTo(o, q)
    /\ UNCHANGED last

Destroy(o) ==
    /\ Exists(o)
    /\ Put(o, NoFrame)
    /\ UNCHANGED last

-----------------------------------------------------------------------------
Next ==
    \E o \in Objects :
        \/ FromText(o)
        \/ FromParts(o)
        \/ Destroy(o)
        \/ \E q \in Objects :
            \/ CopyConstruct(o, q) \/ CopyAssign(o, q)
            \/ MoveConstruct(o, q) \/ MoveAssign(o, q)

Spec == Init /\ [][Next]_vars

-----------------------------------------------------------------------------
(* What a frame is, without a parser: a command line, header lines, a      *)
(* blank line, a body, a null octet and line ends.                         *)

(* The line ends but for the first are the ends of header lines up to the  *)
(* blank line.                                                             *)
Blank(text) == {i \in 3..Len(text) : text[i - 1] = NL /\ text[i] = NL}
Starts(text, blank) == {i \in 3..blank - 1 : text[i - 1] = NL}

LineEnd(text, i) == Min({j \in i..Len(text) : text[j] = NL})

IsHeaderLine(text, i) ==
    text[i] \in Headers /\ text[i + 1] = COLON /\ LineEnd(text, i) > i + 2

Value(text, i) == SubSeq(text, i + 2, LineEnd(text, i) - 1)

(* The value of a header is that of its first line.                        *)
HeadersOf(text, blank) ==
    [h \in {text[i] : i \in Starts(text, blank)} |->
        Value(text, Min({i \in Starts(text, blank) : text[i] = h}))]

(* The declared length is a number that fits; the code takes one that does *)
(* not fit for 0.                                                          *)
Length(headers) ==
    LET first == headers["content-length"][1]
    IN  IF first \in DOMAIN Numeral THEN Numeral[first] ELSE Unspecified

Ends(text, blank, headers) ==
    {n \in blank + 1..Len(text) :
        /\ text[n] = NUL
        /\ \A i \in n + 1..Len(text) : text[i] = NL
        /\ IF "content-length" \in DOMAIN headers
           THEN Length(headers) = n - blank - 1
           ELSE \A i \in blank + 1..n - 1 : text[i] # NUL}

(* The frames a text can be read as: none or one.                          *)
Readings(text) ==
    IF Len(text) < 2 \/ text[1] \notin Commands \/ text[2] # NL \/ Blank(text) = {} THEN {}
    ELSE LET blank == Min(Blank(text))
         IN  IF \E i \in Starts(text, blank) : ~IsHeaderLine(text, i) THEN {}
             ELSE {[command |-> text[1], headers |-> HeadersOf(text, blank),
                    body |-> SubSeq(text, blank + 1, n - 1)] :
                       n \in Ends(text, blank, HeadersOf(text, blank))}

Members(f) == [command |-> f.command, headers |-> f.headers, body |-> f.body]

(* The views of a frame point into its own text.                           *)
Sound(o) == frame[o].at = o

HugeLength(text) == \E i \in DOMAIN text : text[i] \in DOMAIN Numeral /\ Numeral[text[i]] = TooLarge

-----------------------------------------------------------------------------
(* Properties.                                                             *)

(* A frame reads as its text says (stomp-frame.h:203-204), after whatever  *)
(* was copied, moved, assigned and destroyed in between, provided a short  *)
(* one was not moved: a moved one keeps views into the object it came      *)
(* from.                                                                   *)
ReadsItsText ==
    \A o \in Objects :
        /\ Exists(o)
        /\ Inline(frame[o].plain) => Sound(o)
        /\ ~HugeLength(frame[o].plain)
        => \A f \in Readings(frame[o].plain) : Members(frame[o]) = f

(* The constructor accepts exactly the texts that are frames with the      *)
(* headers their command requires, and returns an error for all others     *)
(* (stomp-frame.h:125-128), except that it throws when a text ends with    *)
(* the colon of a header.                                                  *)
Verdict ==
    LET text == last.text
        validated == {"kOk", "kValidationMissingHeader"}
    IN  ~HugeLength(text) =>
        /\ last.ec \in validated <=> Readings(text) # {}
        /\ last.ec = "kOk" <=> \E f \in Readings(text) : Required(f.command) \subseteq DOMAIN f.headers
        /\ last.ec = "throws" => Last(text) = COLON

(* Whether the parts can be told apart again in the text.                  *)
Clean(parts) == \A h \in DOMAIN parts.headers : NL \notin Range(parts.headers[h])
Complete(parts) ==
    /\ \A h \in DOMAIN parts.headers : parts.headers[h] # <<>>
    /\ IF "content-length" \in DOMAIN parts.headers
       THEN Length(parts.headers) = Len(parts.body)
       ELSE NUL \notin Range(parts.body)

(* A frame made from its parts has these parts or is refused, in whatever  *)
(* order the headers are written, and copies of it have them too; values   *)
(* must not contain line ends, which nothing escapes.  It is refused only  *)
(* for an empty value or a body that the text cannot delimit.              *)
PartsComeBack ==
    \A o \in Objects :
        /\ Exists(o)
        /\ Sound(o)
        /\ frame[o].parts # NoParts
        => LET parts == frame[o].parts
           IN  Clean(parts) =>
                /\ frame[o].command # "kInvalid" => Members(frame[o]) = parts
                /\ Complete(parts) => frame[o].command # "kInvalid"
=============================================================================
