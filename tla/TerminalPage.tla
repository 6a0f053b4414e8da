----------------------------- MODULE TerminalPage -----------------------------
(***************************************************************************)
(* What the page of the web terminal does besides showing output           *)
(* (tool/web_terminal/src/terminal.js), with the part of the widget that   *)
(* calls it and takes its messages                                         *)
(* (lib/features/terminal/presentation/widgets/xterm_web_terminal.dart):   *)
(*   - it fits the terminal's columns to its viewport, the font and the    *)
(*     options, when it is active;                                         *)
(*   - it follows the shell's OSC 133 markers, to copy the output of the   *)
(*     last command and to move the cursor of a prompt;                    *)
(*   - it turns touches into mouse clicks and cursor moves;                *)
(*   - it passes on what is typed, the special keys of the shortcut bar,   *)
(*     and the terminal's own answers.                                     *)
(*                                                                         *)
(* The page and the widget are two event loops that send each other calls  *)
(* and messages, in order.  xterm.js, its fit addon, the browser and the   *)
(* shell are external.  A row of the terminal is known by the command that *)
(* printed it; a line of output is LineColumns wide and is wrapped.        *)
(***************************************************************************)
EXTENDS Integers, Sequences, FiniteSets, SequencesExt

CONSTANTS
    Wide,         \* WIDE_TERMINAL_COLUMNS
    Bar,          \* external: width of the scroll bar, which the fit addon leaves free
    Widths,       \* widths of the viewport
    Cells,        \* widths of a character, by font
    LineColumns,  \* columns of a line of output
    Height,       \* rows of the screen
    BufferMax,    \* rows of the screen and the scrollback
    Fingers,      \* how many fingers touch the screen
    Settings,     \* bound: the options the user chooses from
    Budgets       \* bounds: how much of each part may happen

Options == [cell : Cells, agentMode : BOOLEAN, mouseInput : BOOLEAN,
            longPressRightClick : BOOLEAN, tapToMovePromptCursor : BOOLEAN]

Parts == {"layout", "options", "life", "shell", "touch", "keys"}

Modifiers == {"control", "alt"}

ASSUME ParametersAssumption ==
    /\ {Wide, LineColumns, Height} \subseteq Nat \ {0} /\ Bar \in Nat
    /\ Widths \subseteq Nat /\ Cells \subseteq Nat \ {0} /\ Cells # {}
    /\ \A w \in Widths, c \in Cells : w = 0 \/ w >= 2 * c + Bar
    /\ BufferMax \in Nat /\ BufferMax >= Height
    /\ IsFiniteSet(Fingers)
    /\ Settings \subseteq Options /\ Budgets \subseteq [Parts -> Nat]

VARIABLES
    \* the page
    active, options,      \* active; interaction, agentMode and the font
    width, cols,          \* the viewport's width; terminal.cols
    frame,                \* resizeFrame is requested
    rows, row,            \* the buffer, and the row of the cursor in it (from 0)
    outputStart,          \* commandOutputStart, -1 when undefined
    promptActive,         \* promptActive
    lastOutput,           \* lastCommandOutput: the rows it was put together from
    timers, timer,        \* the fingers whose time is running; longPressTimer
    longPressSent, moved, \* longPressSent; is the touch more than 12 px from pointerStart?
    \* the user, the shell and the browser
    down,                 \* the fingers on the screen
    acts,                 \* history: what was made of the present touch
    shell,                \* what the shell does
    command,              \* history: commands so far
    finished,             \* history: the last command that ended, 0 if its rows were rewrapped
    rewrapped,            \* history: did the columns change while it ran?
    \* the widget, and what is under way
    life,                 \* _active, and suspend() on its way to it
    armed,                \* controlArmed and altArmed
    calls,                \* _pendingScripts
    posts,                \* messages of the page
    written,              \* what was written to the connection
    budget                \* bound: what may still happen

layoutVars == <<active, options, width, cols, frame>>
bufferVars == <<rows, row, rewrapped>>
markerVars == <<outputStart, promptActive, lastOutput>>
touchVars == <<timers, timer, longPressSent, moved, down, acts>>
shellVars == <<shell, command, finished>>
keyVars == <<armed, posts, written>>
vars == <<layoutVars, bufferVars, markerVars, touchVars, shellVars, keyVars, life, calls, budget>>

Spend(part) == budget[part] > 0 /\ budget' = [budget EXCEPT ![part] = @ - 1]

Larger(a, b) == IF a > b THEN a ELSE b
CeilDiv(a, b) == (a + b - 1) \div b

Literals == {"escape"}
SpecialKeys == {"arrow"} \cup Literals
Item == [key : SpecialKeys \cup {"letter", "text", "answer", "moves"},
         wanted : SUBSET Modifiers,   \* history: the modifiers it was given
         direct : BOOLEAN,            \* "directInput" or "input"
         control : BOOLEAN,           \* is it a control character?
         escapes : Nat,               \* ESC in front of it
         parameter : Nat]             \* the modifier parameter, 0 without one
Row == [of : Nat, wrapped : BOOLEAN]
Blank == [of |-> 0, wrapped |-> FALSE]

-----------------------------------------------------------------------------
(* Columns.                                                                *)

\* External: FitAddon.proposeDimensions() for a host of the given width.
Proposed(hostWidth, cell) == Larger(2, (hostWidth - Bar) \div cell)

\* fit: the columns of an active page; a narrow viewport gets a wide host to pan over.
Fitted(w, o) ==
    LET visible == Proposed(w, o.cell)
    IN  IF ~o.agentMode /\ visible < Wide
        THEN Proposed(CeilDiv(w * Wide, visible), o.cell)
        ELSE visible

-----------------------------------------------------------------------------
(* External: the buffer of xterm.js.                                       *)

\* Variant: the cursor does not move with the rows.
Trim_KeepsRow(b) ==
    LET extra == Larger(0, Len(b.rows) - BufferMax)
        kept  == SubSeq(b.rows, extra + 1, Len(b.rows))
    IN  [rows |-> [kept EXCEPT ![1].wrapped = FALSE], row |-> b.row]

\* Rows beyond the scrollback go; what is left of a line is a line.
Trim(b) ==
    LET extra == Larger(0, Len(b.rows) - BufferMax)
        kept  == SubSeq(b.rows, extra + 1, Len(b.rows))
    IN  [rows |-> [kept EXCEPT ![1].wrapped = FALSE], row |-> b.row - extra]

LineFeed(b) ==
    IF b.row + 1 < Len(b.rows) THEN [b EXCEPT !.row = @ + 1]
    ELSE Trim([rows |-> Append(b.rows, Blank), row |-> b.row + 1])

Wrapped(of, columns) ==
    [i \in 1..(IF of = 0 THEN 1 ELSE CeilDiv(LineColumns, columns)) |->
        [of |-> of, wrapped |-> i > 1]]

\* A line of output, from the cursor on; below its last row there is always another.
PrintLine(b, of) ==
    LET line == Wrapped(of, cols)
        end  == b.row + Len(line)
        all  == SubSeq(b.rows, 1, b.row) \o line \o SubSeq(b.rows, end + 1, Len(b.rows))
    IN  Trim([rows |-> IF Len(all) = end THEN Append(all, Blank) ELSE all, row |-> end])

ClearScreen(b) ==
    LET base == Len(b.rows) - Height
    IN  [rows |-> [i \in DOMAIN b.rows |-> IF i > base THEN Blank ELSE b.rows[i]],
         row  |-> base]

\* The lines above the cursor, and those from the cursor on, for another number of
\* columns: the first row of a line takes the others with it.
Rewrap(b, columns) ==
    LET rewrap(s) == FlattenSeq([i \in DOMAIN s |-> IF s[i].wrapped THEN <<>>
                                                   ELSE Wrapped(s[i].of, columns)])
        above     == rewrap(SubSeq(b.rows, 1, b.row))
        all       == above \o rewrap(SubSeq(b.rows, b.row + 1, Len(b.rows)))
        missing   == Larger(0, Height - Len(all))
    IN  Trim([rows |-> all \o [i \in 1..missing |-> Blank], row |-> Len(above)])

Buffer == [rows |-> rows, row |-> row]
Becomes(b) == rows' = b.rows /\ row' = b.row

-----------------------------------------------------------------------------

TypeOK ==
    /\ active \in BOOLEAN /\ options \in Options /\ width \in Widths /\ cols \in Nat \ {0}
    /\ frame \in BOOLEAN
    /\ rows \in Seq(Row) /\ Len(rows) \in Height..BufferMax /\ row \in 0..Len(rows) - 1
    /\ outputStart \in -1..BufferMax /\ promptActive \in BOOLEAN /\ lastOutput \in Seq(Row)
    /\ timers \subseteq Fingers /\ timer \subseteq Fingers /\ Cardinality(timer) <= 1
    /\ {longPressSent, moved, rewrapped} \subseteq BOOLEAN
    /\ down \subseteq Fingers /\ acts \in Nat
    /\ shell \in {"idle", "prompt", "runs"} /\ command \in Nat /\ finished \in 0..command
    /\ life \in {"active", "leaving", "away"} /\ armed \subseteq Modifiers
    /\ calls \in Seq([call : {"sendKey"}, key : SpecialKeys, mods : SUBSET Modifiers]
                     \cup [call : {"pasteBase64"}]
                     \cup [call : {"setOptions"}, options : Options]
                     \cup [call : {"setActive"}, value : BOOLEAN])
    /\ posts \in Seq(Item) /\ written \in Seq(Item)
    /\ budget \in [Parts -> Nat]

\* The page has posted "ready", and the widget has answered with its options.
Init ==
    /\ active = TRUE /\ frame = FALSE
    /\ options = [cell |-> CHOOSE c \in Cells : TRUE, agentMode |-> FALSE,
                  mouseInput |-> FALSE, longPressRightClick |-> FALSE,
                  tapToMovePromptCursor |-> FALSE]
    /\ width \in Widths \ {0} /\ cols = Fitted(width, options)
    /\ rows = [i \in 1..Height |-> Blank] /\ row = 0
    /\ outputStart = -1 /\ promptActive = FALSE /\ lastOutput = <<>>
    /\ timers = {} /\ timer = {} /\ longPressSent = FALSE /\ moved = FALSE
    /\ down = {} /\ acts = 0
    /\ shell = "idle" /\ command = 0 /\ finished = 0 /\ rewrapped = FALSE
    /\ life = "active" /\ armed = {} /\ posts = <<>> /\ written = <<>>
    /\ \E o \in Settings : calls = << [call |-> "setOptions", options |-> o],
                                     [call |-> "setActive", value |-> TRUE] >>
    /\ budget \in Budgets

\* fit, with the rows wrapped for the columns it finds.
Fit ==
    IF active' /\ width # 0
    THEN /\ cols' = Fitted(width, options')
         /\ IF cols' = cols THEN UNCHANGED bufferVars
            ELSE /\ Becomes(Rewrap(Buffer, cols'))
                 /\ rewrapped' = (rewrapped \/ shell = "runs")
    ELSE UNCHANGED <<cols, bufferVars>>

-----------------------------------------------------------------------------
(* The viewport and the widget.                                            *)

\* The viewport changes, and the ResizeObserver asks for a frame.
Resize(w) ==
    /\ Spend("layout")
    /\ w # width
    /\ width' = w /\ frame' = TRUE
    /\ UNCHANGED <<active, options, cols, bufferVars, markerVars, touchVars, shellVars,
                   keyVars, life, calls>>

ResizeFrame ==
    /\ frame
    /\ frame' = FALSE
    /\ UNCHANGED <<active, options, width>>
    /\ Fit
    /\ UNCHANGED <<markerVars, touchVars, shellVars, keyVars, life, calls, budget>>

\* _configure, of a widget that is built with other settings.
Configure(o) ==
    /\ Spend("options")
    /\ calls' = Append(calls, [call |-> "setOptions", options |-> o])
    /\ UNCHANGED <<layoutVars, bufferVars, markerVars, touchVars, shellVars, keyVars, life>>

\* _performSuspend, from setActive(false) to its end.
Suspend ==
    /\ Spend("life")
    /\ life = "active"
    /\ life' = "leaving"
    /\ calls' = Append(calls, [call |-> "setActive", value |-> FALSE])
    /\ UNCHANGED <<layoutVars, bufferVars, markerVars, touchVars, shellVars, keyVars>>

SuspendEnds ==
    /\ life = "leaving" /\ calls = <<>>
    /\ life' = "away"
    /\ UNCHANGED <<layoutVars, bufferVars, markerVars, touchVars, shellVars, keyVars, calls,
                   budget>>

\* _resumeAfterSuspension.
Resume ==
    /\ life = "away"
    /\ life' = "active"
    /\ calls' = Append(calls, [call |-> "setActive", value |-> TRUE])
    /\ UNCHANGED <<layoutVars, bufferVars, markerVars, touchVars, shellVars, keyVars, budget>>

-----------------------------------------------------------------------------
(* What is typed.                                                          *)

\* A character, a text, an answer or moves of the cursor, as xterm.js produces them.
Plain(key, wanted) ==
    [key |-> key, wanted |-> wanted, direct |-> FALSE, control |-> FALSE, escapes |-> 0,
     parameter |-> 0]

\* specialKeySequence: an unmodified arrow takes the form of the keypad's mode, which
\* is left out.
Sequence(key, mods) ==
    LET modifiers == (IF "alt" \in mods THEN 2 ELSE 0) + (IF "control" \in mods THEN 4 ELSE 0)
        plain     == [Plain(key, mods) EXCEPT !.direct = TRUE]
    IN  CASE key = "arrow" /\ mods = {} -> plain
          [] key = "arrow" /\ mods # {} -> [plain EXCEPT !.parameter = modifiers + 1]
          [] key \in Literals /\ "control" \in mods ->
                 [plain EXCEPT !.parameter = modifiers + 1]
          [] key \in Literals /\ "control" \notin mods ->
                 [plain EXCEPT !.escapes = Cardinality(mods)]

\* The modifiers that the remote program reads out of what was written.
Meaning(item) ==
    {m \in Modifiers :
        \/ m = "alt" /\ (item.escapes > 0 \/ item.parameter \in {3, 7})
        \/ m = "control" /\ (item.control \/ item.parameter \in {5, 7})}

\* onData.
OnData(item) == posts' = IF active THEN Append(posts, item) ELSE posts

\* The user types a character.
Type ==
    /\ Spend("keys")
    /\ OnData(Plain("letter", armed))
    /\ UNCHANGED <<layoutVars, bufferVars, markerVars, touchVars, shellVars, armed, written,
                   life, calls>>

\* The terminal answers a query in its output.
Answer ==
    /\ Spend("keys") /\ shell = "runs"
    /\ OnData(Plain("answer", {}))
    /\ UNCHANGED <<layoutVars, bufferVars, markerVars, touchVars, shellVars, armed, written,
                   life, calls>>

\* toggleControl and toggleAlt.
Toggle(m) ==
    /\ Spend("keys")
    /\ armed' = IF m \in armed THEN armed \ {m} ELSE armed \cup {m}
    /\ UNCHANGED <<layoutVars, bufferVars, markerVars, touchVars, shellVars, posts, written,
                   life, calls>>

\* _sendSpecialKey and sendKey: the key takes the armed modifiers with it.
PressKey(key) ==
    /\ Spend("keys") /\ life # "away"
    /\ calls' = Append(calls, [call |-> "sendKey", key |-> key, mods |-> armed])
    /\ armed' = {}
    /\ UNCHANGED <<layoutVars, bufferVars, markerVars, touchVars, shellVars, posts, written,
                   life>>

\* paste.
Paste ==
    /\ Spend("keys") /\ life # "away"
    /\ calls' = Append(calls, [call |-> "pasteBase64"])
    /\ UNCHANGED <<layoutVars, bufferVars, markerVars, touchVars, shellVars, keyVars, life>>

NextCall(name) == calls # <<>> /\ Head(calls).call = name /\ calls' = Tail(calls)

\* Variant: the key is posted as typed.
SendKey_AsTyped ==
    /\ NextCall("sendKey")
    /\ OnData([Sequence(Head(calls).key, Head(calls).mods) EXCEPT !.direct = FALSE])
    /\ UNCHANGED <<layoutVars, bufferVars, markerVars, touchVars, shellVars, armed, written,
                   life, budget>>

SendKey ==
    /\ NextCall("sendKey")
    /\ OnData(Sequence(Head(calls).key, Head(calls).mods))
    /\ UNCHANGED <<layoutVars, bufferVars, markerVars, touchVars, shellVars, armed, written,
                   life, budget>>

PasteBase64 ==
    /\ NextCall("pasteBase64")
    /\ OnData(Plain("text", {}))
    /\ UNCHANGED <<layoutVars, bufferVars, markerVars, touchVars, shellVars, armed, written,
                   life, budget>>

SetOptions ==
    /\ NextCall("setOptions")
    /\ options' = Head(calls).options
    /\ UNCHANGED <<active, width, frame>>
    /\ Fit
    /\ UNCHANGED <<markerVars, touchVars, shellVars, keyVars, life, budget>>

\* Variant: an active page keeps the columns it had.
SetActive_Unfitted ==
    /\ NextCall("setActive")
    /\ active' = Head(calls).value
    /\ UNCHANGED <<options, width, frame, cols, bufferVars, markerVars, touchVars, shellVars,
                   keyVars, life, budget>>

SetActive ==
    /\ NextCall("setActive")
    /\ active' = Head(calls).value
    /\ UNCHANGED <<options, width, frame>>
    /\ Fit
    /\ UNCHANGED <<markerVars, touchVars, shellVars, keyVars, life, budget>>

\* _handleJavaScriptMessage, of "input" (sendInput applies what is armed) and
\* "directInput".
HandleInput ==
    /\ posts # <<>>
    /\ posts' = Tail(posts)
    /\ LET item == Head(posts)
       IN  IF life = "away" THEN UNCHANGED <<armed, written>>
           ELSE IF item.direct
           THEN written' = Append(written, item) /\ UNCHANGED armed
           ELSE /\ written' = Append(written,
                       [item EXCEPT !.control = item.key = "letter" /\ "control" \in armed,
                                    !.escapes = @ + Cardinality(armed \cap {"alt"})])
                /\ armed' = {}
    /\ UNCHANGED <<layoutVars, bufferVars, markerVars, touchVars, shellVars, life, calls,
                   budget>>

-----------------------------------------------------------------------------
(* The shell's markers, as an active page parses them.                     *)

ShellStep == active /\ Spend("shell")

\* Marker A.
ShellPrompts ==
    /\ ShellStep /\ shell = "idle"
    /\ shell' = "prompt" /\ promptActive' = TRUE
    /\ UNCHANGED <<layoutVars, bufferVars, outputStart, lastOutput, touchVars, command,
                   finished, keyVars, life, calls>>

\* Marker C: some shells send it on the prompt's row, some on the next.
ShellRuns ==
    /\ ShellStep /\ shell = "prompt"
    /\ shell' = "runs" /\ command' = command + 1 /\ rewrapped' = FALSE
    /\ Becomes(LineFeed(Buffer))
    /\ promptActive' = FALSE
    /\ \E marked \in {row, row'} : outputStart' = marked + 1
    /\ UNCHANGED <<layoutVars, lastOutput, touchVars, finished, keyVars, life, calls>>

ShellPrints ==
    /\ ShellStep /\ shell = "runs"
    /\ Becomes(PrintLine(Buffer, command))
    /\ UNCHANGED <<layoutVars, rewrapped, markerVars, touchVars, shellVars, keyVars, life, calls>>

ShellClears ==
    /\ ShellStep /\ shell = "runs"
    /\ Becomes(ClearScreen(Buffer))
    /\ UNCHANGED <<layoutVars, rewrapped, markerVars, touchVars, shellVars, keyVars, life, calls>>

\* Variant: the next marker D starts from the same row.
MarkEnd_KeepsStart(at) ==
    IF outputStart = -1 THEN UNCHANGED <<outputStart, lastOutput, finished>>
    ELSE /\ lastOutput' = SubSeq(rows, outputStart + 1, at)
         /\ UNCHANGED outputStart
         /\ finished' = IF rewrapped THEN 0 ELSE command

\* Marker D at a row.
MarkEnd(at) ==
    IF outputStart = -1 THEN UNCHANGED <<outputStart, lastOutput, finished>>
    ELSE /\ lastOutput' = SubSeq(rows, outputStart + 1, at)
         /\ outputStart' = -1
         /\ finished' = IF rewrapped THEN 0 ELSE command

\* The command ends, or the user entered none.
ShellEnds ==
    /\ ShellStep /\ shell \in {"prompt", "runs"}
    /\ shell' = "idle"
    /\ Becomes(IF shell = "prompt" THEN LineFeed(Buffer) ELSE Buffer)
    /\ MarkEnd(row')
    /\ UNCHANGED <<layoutVars, rewrapped, promptActive, touchVars, command, keyVars, life,
                   calls>>

-----------------------------------------------------------------------------
(* Touches.                                                                *)

PointerDown(f) ==
    /\ Spend("touch") /\ f \notin down
    /\ down' = down \cup {f}
    /\ acts' = IF down = {} THEN 0 ELSE acts
    /\ moved' = FALSE /\ longPressSent' = FALSE
    /\ IF options.mouseInput /\ options.longPressRightClick
       THEN timers' = timers \cup {f} /\ timer' = {f}
       ELSE UNCHANGED <<timers, timer>>
    /\ UNCHANGED <<layoutVars, bufferVars, markerVars, shellVars, keyVars, life, calls>>

\* The finger is dragged away.
PointerMove ==
    /\ down # {} /\ ~moved
    /\ moved' = TRUE
    /\ UNCHANGED <<layoutVars, bufferVars, markerVars, timers, timer, longPressSent, down,
                   acts, shellVars, keyVars, life, calls, budget>>

\* 500 ms later: dispatchMouse of the right button.
LongPress(f) ==
    /\ f \in timers
    /\ timers' = timers \ {f}
    /\ longPressSent' = TRUE
    /\ acts' = acts + 1
    /\ UNCHANGED <<layoutVars, bufferVars, markerVars, timer, moved, down, shellVars,
                   keyVars, life, calls, budget>>

\* movePromptCursor of a touch on the cursor's row or not, n columns away.
MovesPromptCursor(onRow) == options.tapToMovePromptCursor /\ promptActive /\ onRow

MovePromptCursor(n) ==
    IF n = 0 THEN UNCHANGED <<posts, acts>>
    ELSE OnData(Plain("moves", {})) /\ acts' = acts + 1

\* Variant: what follows a long press is a tap.
PointerUp_AfterLongPress(f) ==
    /\ f \in down
    /\ down' = down \ {f}
    /\ timers' = timers \ timer
    /\ IF moved THEN UNCHANGED <<posts, acts>>
       ELSE \E onRow \in BOOLEAN, n \in 0..1 :
                IF MovesPromptCursor(onRow) THEN MovePromptCursor(n)
                ELSE /\ acts' = IF options.mouseInput THEN acts + 1 ELSE acts
                     /\ UNCHANGED posts
    /\ UNCHANGED <<layoutVars, bufferVars, markerVars, timer, longPressSent, moved,
                   shellVars, armed, written, life, calls, budget>>

\* The left button, or a cursor that is moved.
PointerUp(f) ==
    /\ f \in down
    /\ down' = down \ {f}
    /\ timers' = timers \ timer
    /\ IF longPressSent \/ moved THEN UNCHANGED <<posts, acts>>
       ELSE \E onRow \in BOOLEAN, n \in 0..1 :
                IF MovesPromptCursor(onRow) THEN MovePromptCursor(n)
                ELSE /\ acts' = IF options.mouseInput THEN acts + 1 ELSE acts
                     /\ UNCHANGED posts
    /\ UNCHANGED <<layoutVars, bufferVars, markerVars, timer, longPressSent, moved,
                   shellVars, armed, written, life, calls, budget>>

\* The browser takes the touch over, to scroll.
PointerCancel(f) ==
    /\ f \in down
    /\ down' = down \ {f}
    /\ timers' = timers \ timer
    /\ UNCHANGED <<layoutVars, bufferVars, markerVars, timer, longPressSent, moved, acts,
                   shellVars, keyVars, life, calls, budget>>

-----------------------------------------------------------------------------

Layout == (\E w \in Widths : Resize(w)) \/ ResizeFrame \/ SetOptions \/ SetActive
Widget == (\E o \in Settings : Configure(o)) \/ Suspend \/ SuspendEnds \/ Resume
Keys ==
    \/ Type \/ Answer \/ Paste \/ SendKey \/ PasteBase64 \/ HandleInput
    \/ \E m \in Modifiers : Toggle(m)
    \/ \E k \in SpecialKeys : PressKey(k)
Shell == ShellPrompts \/ ShellRuns \/ ShellPrints \/ ShellClears \/ ShellEnds
Touch ==
    \/ PointerMove
    \/ \E f \in Fingers : PointerDown(f) \/ LongPress(f) \/ PointerUp(f) \/ PointerCancel(f)

Next == Layout \/ Widget \/ Keys \/ Shell \/ Touch

Spec == Init /\ [][Next]_vars

-----------------------------------------------------------------------------
(* Properties.                                                             *)

\* An active page that has no frame to wait for has the columns its viewport, font
\* and mode call for, whatever changed while it was not active or not shown; outside
\* agent mode it has at least Wide of them (fit and who calls it).
FitsWhenActive ==
    active /\ ~frame /\ width # 0 =>
        /\ cols = Fitted(width, options)
        /\ ~options.agentMode => cols >= Wide

\* What "copy the last output" copies was printed by the last command that ended, over
\* scrolled and cleared screens and prompts at which nothing was run; commands whose
\* rows were wrapped anew are excepted (the handler of OSC 133).
CopiesOnlyLastCommand ==
    finished # 0 => \A i \in DOMAIN lastOutput : lastOutput[i].of = finished

\* A special key reaches the connection with the modifiers it was pressed with, each
\* once, whatever is armed while it is under way (sendKey, sendInputDirect).
SpecialKeysAsPressed ==
    \A i \in DOMAIN written :
        written[i].key \in SpecialKeys =>
            Meaning(written[i]) = written[i].wanted /\ written[i].escapes <= 1

\* A touch with one finger makes one thing at most, and no long press is pending once
\* the finger has left (the handlers of the pointer).
TouchActsOnce == acts <= 1 /\ (timers # {} => down # {})

-----------------------------------------------------------------------------
(* Not kept by the code, and stated without a run.                         *)

\* The copy is of the last command also when the columns changed while it ran: the
\* row that was noted for its start is then another.
CopiesOnlyLastCommandRewrapped ==
    lastOutput # <<>> => \E k \in 1..command : \A i \in DOMAIN lastOutput : lastOutput[i].of = k

\* The terminal's answers are written as they are: sendInput gives them the armed Alt.
AnswersUnmodified ==
    \A i \in DOMAIN written : written[i].key = "answer" => Meaning(written[i]) = {}

\* A character has the modifiers that were armed when it was typed.
LettersAsTyped ==
    \A i \in DOMAIN written : written[i].key = "letter" => Meaning(written[i]) = written[i].wanted
=============================================================================
