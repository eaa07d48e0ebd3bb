------------------------------- MODULE Wallet -------------------------------
(***************************************************************************)
(* What the application promises to host and user: a command hands over a  *)
(* path or a chunk and is answered at once or by a review, which the user  *)
(* decides.  To a host that awaits its replies, a key is that of the path  *)
(* asked for, a signature that of the review it was decided in.  A host    *)
(* that gives a review up and sends other commands is promised less: the   *)
(* page stays, the late decision is on what was handed over last, and its  *)
(* reply takes the place of a later command's.  Nothing is said of contexts*)
(* and menus or of the reply state machine; ScreensWallet relates the two. *)
(***************************************************************************)
EXTENDS Sequences

CONSTANTS
  Paths,      \* paths that keys are derived for
  Refused,    \* payloads that are no such path
  NoPath,     \* no path handed over yet
  Chunks,     \* contents of a transaction chunk
  HostWaits   \* the host awaits a reply before its next command

VARIABLES
  on,         \* the application serves
  asked,      \* path last handed over
  upload,     \* chunks handed over since SIGN_TX was started
  review,     \* what the user is to decide, or NoReview
  reply,      \* what the host received for its last command
  late        \* the outcome of a review that was given up, or Silence

walletVars == <<on, asked, upload, review, reply, late>>

(* A review is awaited until its host sends another command.               *)
NoReview == [of |-> "none", path |-> NoPath, raw |-> <<>>, awaited |-> FALSE]

Reply(kind, path, raw) ==
  [kind |-> kind, path |-> path, raw |-> raw, stale |-> FALSE]
Silence        == Reply("silence", NoPath, <<>>)
Plain          == Reply("status", NoPath, <<>>)
Key(path)      == Reply("pubkey", path, <<>>)
Signed(path, raw) == Reply("signature", path, raw)

(* A late outcome as it reaches the host, for a command it is no reply to. *)
Leftover(r) ==
  IF r = Silence THEN r
  ELSE [kind |-> r.kind, path |-> r.path, raw |-> r.raw, stale |-> TRUE]

-----------------------------------------------------------------------------
(* How a command ends: answered, with a review to decide or, after a late  *)
(* decision, with the end of the application.                              *)
Answered(r) ==
  /\ review' = [of |-> review.of, path |-> review.path, raw |-> review.raw,
                awaited |-> FALSE]
  /\ reply' = r /\ late' = Silence
  /\ UNCHANGED on

UnderReview(of, path, raw) ==
  /\ review' = [of |-> of, path |-> path, raw |-> raw, awaited |-> late = Silence]
  /\ reply' = Leftover(late) /\ late' = Silence
  /\ UNCHANGED on

Abandons ==
  /\ late # Silence
  /\ review' = NoReview
  /\ reply' = Silence /\ late' = Silence
  /\ on' = FALSE

Serves == on /\ (HostWaits => ~review.awaited)

(* A command that hands nothing over.                                      *)
Inform ==
  /\ Serves
  /\ UNCHANGED <<asked, upload>>
  /\ Answered(Plain) \/ Abandons

AskKey(path) ==
  /\ Serves
  /\ asked' = path
  /\ UNCHANGED upload
  /\ \/ Answered(Plain) \/ Abandons
     \/ path \in Paths /\ (Answered(Key(path)) \/ UnderReview("address", path, <<>>))

BeginUpload(path) ==
  /\ Serves
  /\ asked' = path
  /\ upload' = <<>>
  /\ Answered(Plain) \/ Abandons

AddChunk(chunk) ==
  /\ Serves
  /\ upload' = Append(upload, chunk)
  /\ UNCHANGED asked
  /\ \/ Answered(Plain) \/ Abandons
     \/ UnderReview("transaction", asked, upload')

-----------------------------------------------------------------------------
(* The user decides, and the host is told so.                              *)
Closes ==
  /\ review' = NoReview
  /\ UNCHANGED <<on, asked, upload>>

Decided ==
  /\ review.awaited
  /\ Closes
  /\ reply' \in {Plain, IF review.of = "address" THEN Key(review.path)
                                                 ELSE Signed(review.path, review.raw)}
  /\ UNCHANGED late

(* The user decides after the host gave up.  What is confirmed then need   *)
(* not be what the page shows: it is of the path and the chunks handed over*)
(* last, and a key may even consist of the chunks.                         *)
DecidedLate ==
  /\ review # NoReview /\ ~review.awaited
  /\ Closes
  /\ \E path \in {asked, NoPath}, raw \in {<<>>, upload} :
       late' \in {Plain, IF review.of = "address" THEN Reply("pubkey", path, raw)
                                                  ELSE Signed(asked, raw)}
  /\ UNCHANGED reply

(* Start and end of the application: nothing survives.                     *)
Restart ==
  /\ on' \in BOOLEAN
  /\ asked' = NoPath /\ upload' = <<>>
  /\ review' = NoReview /\ reply' = Silence /\ late' = Silence

Init ==
  /\ on = FALSE
  /\ asked = NoPath /\ upload = <<>>
  /\ review = NoReview /\ reply = Silence /\ late = Silence

Next ==
  \/ Restart
  \/ Inform
  \/ \E path \in Paths \cup Refused : AskKey(path) \/ BeginUpload(path)
  \/ \E chunk \in Chunks : AddChunk(chunk)
  \/ Decided \/ DecidedLate

Spec == Init /\ [][Next]_walletVars
=============================================================================
