-------------------------------- MODULE Scanner --------------------------------
(***************************************************************************)
(* The QR scanner of the pages: scanner.js. openScanner() shows the overlay *)
(* and starts a chain of promises (camera, video, decoder) that ends in a   *)
(* loop of animation frames; a code found stops the loop, and 1.2 s later a *)
(* timer hands it to onScan and closes the scanner. Chains, frames, timers, *)
(* the close buttons and ESC all share the module's three variables.        *)
(***************************************************************************)
EXTENDS Naturals, Sequences, SequencesExt

CONSTANT MaxOpens   \* calls of openScanner(); bounds a run

ASSUME MaxOpensAssumption == MaxOpens \in Nat

Opens == 1 .. MaxOpens

\* An open gives its number to its chain, its stream, its loop and its timer.
\* 0 stands for null.
VARIABLES
  opened,     \* opens so far; the last one's options are userOptions
  visible,    \* the overlay
  chain,      \* how far the promises of an open are
  stream,     \* the stream in `stream` and on the video
  live,       \* streams the camera delivers
  scanLoopId, \* the loop whose latest frame's id is in scanLoopId
  frames,     \* loops with an animation frame requested
  timers,     \* scans that wait for their timer, in order
  decoder,    \* jsQR: "absent", "loading", "loaded" or "failed"
  \* History, read by no action of the code:
  crossed,    \* opens under way while another one was, or closed while starting
  handed      \* scans handed over: <<open that scanned, open whose onScan was called>>

scannerVars == <<opened, visible, chain, stream, live, scanLoopId, frames, timers, decoder,
                 crossed, handed>>

ScannerInit ==
  /\ opened = 0 /\ visible = FALSE /\ chain = [k \in Opens |-> "none"]
  /\ stream = 0 /\ live = {} /\ scanLoopId = 0 /\ frames = {} /\ timers = <<>>
  /\ decoder = "absent" /\ crossed = {} /\ handed = {}

Starting == {k \in Opens : chain[k] \in {"camera", "play", "decoder"}}

UnderWay == Starting \cup live \cup frames \cup ToSet(timers)

-----------------------------------------------------------------------------
\* openScanner(), also while the scanner is open (the button behind it keeps the
\* keyboard's focus).
OpenScanner ==
  /\ opened < MaxOpens
  /\ opened' = opened + 1 /\ visible' = TRUE
  /\ chain' = [chain EXCEPT ![opened'] = "camera"]
  /\ crossed' = IF UnderWay = {} THEN crossed ELSE crossed \cup UnderWay \cup {opened'}
  /\ UNCHANGED <<stream, live, scanLoopId, frames, timers, decoder, handed>>

\* getUserMedia has answered: `stream` is overwritten, whatever it held.
CameraReady(k) ==
  /\ chain[k] = "camera"
  /\ stream' = k /\ live' = live \cup {k}
  /\ chain' = [chain EXCEPT ![k] = "play"]
  /\ UNCHANGED <<opened, visible, scanLoopId, frames, timers, decoder, crossed, handed>>

\* video.play() has; the first open that gets here appends the script.
Playing(k) ==
  /\ chain[k] = "play"
  /\ chain' = [chain EXCEPT ![k] = "decoder"]
  /\ decoder' = IF decoder = "absent" THEN "loading" ELSE decoder
  /\ UNCHANGED <<opened, visible, stream, live, scanLoopId, frames, timers, crossed, handed>>

\* Either is refused: a hint, and the overlay stays.
CameraFails(k) ==
  /\ chain[k] \in {"camera", "play"}
  /\ chain' = [chain EXCEPT ![k] = "failed"]
  /\ UNCHANGED <<opened, visible, stream, live, scanLoopId, frames, timers, decoder, crossed, handed>>

\* onload or onerror of the one script element: the promise is kept for good.
ScriptEnds ==
  /\ decoder = "loading"
  /\ decoder' \in {"loaded", "failed"}
  /\ UNCHANGED <<opened, visible, chain, stream, live, scanLoopId, frames, timers, crossed, handed>>

\* loadJsQR() resolves: the loop starts, or the hint says there is no decoder.
StartLoopUnheld(k) ==                                             \* mutant
  /\ chain[k] = "decoder" /\ decoder = "loaded"
  /\ chain' = [chain EXCEPT ![k] = "scanning"]
  /\ frames' = frames \cup {k}
  /\ UNCHANGED <<opened, visible, stream, live, scanLoopId, timers, decoder, crossed, handed>>
StartScanLoop(k) ==
  /\ chain[k] = "decoder" /\ decoder = "loaded"
  /\ chain' = [chain EXCEPT ![k] = "scanning"]
  /\ frames' = frames \cup {k} /\ scanLoopId' = k
  /\ UNCHANGED <<opened, visible, stream, live, timers, decoder, crossed, handed>>

NoDecoder(k) ==
  /\ chain[k] = "decoder" /\ decoder = "failed"
  /\ chain' = [chain EXCEPT ![k] = "failed"]
  /\ UNCHANGED <<opened, visible, stream, live, scanLoopId, frames, timers, decoder, crossed, handed>>

-----------------------------------------------------------------------------
\* tick() sees no code, or no picture: the next frame.
TickOn(k) ==
  /\ k \in frames
  /\ scanLoopId' = k
  /\ UNCHANGED <<opened, visible, chain, stream, live, frames, timers, decoder, crossed, handed>>

StopScanLoop(s) == frames' = s \ {scanLoopId} /\ scanLoopId' = 0

\* onCodeDetected(): any loop sees whatever picture the video shows.
DetectAgain(k) ==                                                 \* mutant
  /\ k \in frames /\ stream # 0
  /\ scanLoopId' = k
  /\ timers' = Append(timers, k)
  /\ UNCHANGED <<opened, visible, chain, stream, live, frames, decoder, crossed, handed>>
Detect(k) ==
  /\ k \in frames /\ stream # 0
  /\ StopScanLoop(frames \ {k})
  /\ timers' = Append(timers, k)
  /\ UNCHANGED <<opened, visible, chain, stream, live, decoder, crossed, handed>>

StopNoCamera == stream' = 0 /\ UNCHANGED live                     \* mutant
StopCamera == stream' = 0 /\ live' = live \ {stream}

\* closeScanner(): a button, ESC at any time, or the timer.
CloseScanner ==
  /\ StopScanLoop(frames) /\ StopCamera
  /\ visible' = FALSE
  /\ crossed' = crossed \cup Starting
  /\ UNCHANGED <<opened, chain, decoder>>

Close == CloseScanner /\ UNCHANGED <<timers, handed>>

\* The oldest timer hands its text to the onScan of the last open.
Timer ==
  /\ timers # <<>>
  /\ handed' = handed \cup {<<Head(timers), opened>>}
  /\ timers' = Tail(timers)
  /\ CloseScanner

ScannerNext ==
  \/ OpenScanner \/ Close \/ Timer \/ ScriptEnds
  \/ \E k \in Opens : \/ CameraReady(k) \/ Playing(k) \/ CameraFails(k)
                      \/ StartScanLoop(k) \/ NoDecoder(k)
                      \/ TickOn(k) \/ Detect(k)

ScannerSpec == ScannerInit /\ [][ScannerNext]_scannerVars

-----------------------------------------------------------------------------
ScannerTypeOK ==
  /\ opened \in 0 .. MaxOpens /\ visible \in BOOLEAN
  /\ chain \in [Opens -> {"none", "camera", "play", "decoder", "scanning", "failed"}]
  /\ stream \in 0 .. MaxOpens /\ live \subseteq Opens
  /\ scanLoopId \in 0 .. MaxOpens /\ frames \subseteq Opens
  /\ timers \in Seq(Opens) /\ decoder \in {"absent", "loading", "loaded", "failed"}
  /\ crossed \subseteq Opens /\ handed \subseteq Opens \X Opens

\* A closed scanner has its camera off and looks for no code, but for opens that
\* were closed before they had started or were under way together: else closing
\* reaches the stream and the loop, whatever the chain had come to (scanner.js
\* 256-288, 317-322, 370-375).
OffWhenClosed == ~visible => live \cup frames \subseteq crossed

\* What a scan reads goes to the onScan of the open that made it, and an open scans
\* once, unless another open came while it was under way (328-345, 350-352).
HandedToOpener ==
  /\ \A x \in handed : x[1] # x[2] => x[1] \in crossed
  /\ \A k \in Opens \ crossed : k \in ToSet(timers) =>
       /\ chain[k] = "scanning" /\ k = opened
       /\ k \notin frames /\ \A x \in handed : x[1] # k

\* A scanner on the screen that has started goes on looking, with one loop that
\* closing can stop, until it has found a code; when no open was crossed, nothing
\* an earlier open left behind stops it (293-322, 350-366).
LoopHeld ==
  crossed = {} /\ visible /\ chain[opened] = "scanning" =>
    \/ frames = {opened} /\ scanLoopId = opened /\ live = {opened} /\ stream = opened
    \/ frames = {} /\ ToSet(timers) = {opened}
-----------------------------------------------------------------------------
\* The inductive invariant of the three. What an open left behind shows how far its
\* chain came.
ReachedInv ==
  /\ \A k \in Opens : k > opened => chain[k] = "none"
  /\ \A k \in live : chain[k] \notin {"none", "camera"}
  /\ \A k \in frames \cup ToSet(timers) : chain[k] = "scanning"
  /\ \A x \in handed : chain[x[1]] = "scanning"
  /\ visible => opened # 0

\* An open that was not crossed is under way alone, and the last.
AloneInv == UnderWay \subseteq crossed \/ UnderWay = {opened}

\* The shared variables hold what it has started; nothing starts behind a closed overlay.
HeldInv ==
  /\ live \subseteq {stream} \cup crossed
  /\ frames \subseteq {scanLoopId} \cup crossed
  /\ ~visible => Starting \subseteq crossed
  /\ crossed = {} => \A k \in Opens : chain[k] \in {"play", "decoder"} => live = {k} /\ stream = k

\* It scans once.
OnceInv ==
  /\ \A i, j \in DOMAIN timers : i # j => timers[i] \in crossed
  /\ \A k \in frames \ crossed : k \notin ToSet(timers) /\ \A x \in handed : x[1] # k

ScannerInv ==
  /\ ScannerTypeOK /\ ReachedInv /\ AloneInv /\ HeldInv /\ OnceInv
  /\ OffWhenClosed /\ HandedToOpener /\ LoopHeld
=============================================================================
