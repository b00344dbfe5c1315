---------------------------- MODULE WebInteraction ----------------------------
(***************************************************************************)
(* A browser and the web interaction API (interfaces/http/web/             *)
(* interactions.py over services/web_interaction.py): it reads a run's     *)
(* snapshot, follows its events over a stream that may break at any        *)
(* moment, reopens the stream behind the last event it received, and       *)
(* submits the action that the run asks for.                               *)
(*                                                                         *)
(* An event is its index in REFERENCE_EVENT_IDS; its sequence number is    *)
(* one more.  What the server has sent and the browser not yet received    *)
(* is lost when the stream breaks.                                         *)
(***************************************************************************)
EXTENDS Naturals, Sequences, SequencesExt

CONSTANTS Principals,  \* who asks: [surface, app, actor]
          ProviderEnabled,  \* is the reference provider enabled?
          MaxBreaks,   \* broken streams (bound)
          MaxReloads,  \* snapshots read again, actions submitted (bound)
          NoCursor         \* no cursor

ASSUME WebAssumption == NoCursor \notin 0..4 /\ ProviderEnabled \in BOOLEAN

VARIABLES principal,
          state,     \* "new", "known", "streaming", "ended", "refused"
          cursor,    \* index of the event the browser resumes behind, or NoCursor
          sending,   \* the events the server has still to yield
          wire,      \* events sent and not received
          seen,      \* events received since the snapshot was read
          reply,     \* the last error's code, or ""
          status,    \* of the snapshot the browser holds
          breaks, reloads

webVars == <<principal, state, cursor, sending, wire, seen, reply, status, breaks, reloads>>

Stream == <<1, 2, 3>>          \* the events a stream yields: delta, citation, input_required
Ids == 0..4                    \* REFERENCE_EVENT_IDS
Malformed == 8                 \* what is no id at all
Unknown == 9                   \* a well-formed id of no event

WebInit == /\ principal \in Principals /\ state = "new" /\ cursor = NoCursor
           /\ sending = <<>> /\ wire = <<>> /\ seen = <<>> /\ reply = "" /\ status = "none"
           /\ breaks = 0 /\ reloads = 0

\* _authorize and get_web_interaction_port
Authorized == principal.surface = "web" /\ principal.app = "own" /\ principal.actor = "user"
Refusal == IF ~ProviderEnabled THEN "provider_unavailable" ELSE "resource_forbidden"
Refuse == /\ reply' = Refusal /\ state' = "refused"
          /\ UNCHANGED <<principal, cursor, sending, wire, seen, status, breaks, reloads>>

\* get_run: the provider keeps nothing of an action, a snapshot is the first one.
GetRun ==
  /\ state \in {"new", "known", "ended"} /\ (state # "new" => reloads < MaxReloads)
  /\ IF ProviderEnabled /\ Authorized
     THEN /\ state' = "known" /\ cursor' = 0 /\ seen' = <<>> /\ wire' = <<>> /\ reply' = "" /\ status' = "running"
          /\ reloads' = IF state = "new" THEN 0 ELSE reloads + 1
          /\ UNCHANGED <<principal, sending, breaks>>
     ELSE Refuse

\* An event is skipped when its sequence_no is <= cursor + 1: those behind the
\* cursor are left.  No cursor is cursor 0.
At(c) == IF c = NoCursor THEN 0 ELSE c
ResumesAt(c) == SubSeq(Stream, IF At(c) = 0 THEN 1 ELSE At(c), Len(Stream))  \* mutant of Resumed
Resumed(c) == SubSeq(Stream, At(c) + 1, Len(Stream))

\* The header and the query parameter carry the same cursor or only one of them.
OpenStream ==
  /\ state = "known" /\ ProviderEnabled /\ Authorized
  /\ sending' = Resumed(cursor) /\ wire' = <<>> /\ state' = "streaming" /\ reply' = ""
  /\ UNCHANGED <<principal, cursor, seen, status, breaks, reloads>>

\* A cursor that is no id, that conflicts with the other one, or that is gone.
OpenRejected ==
  /\ state = "known" /\ ProviderEnabled /\ Authorized /\ reloads < MaxReloads
  /\ \E header, query \in Ids \cup {NoCursor, Malformed, Unknown} :
       /\ {header, query} # {NoCursor}
       /\ LET both == header # NoCursor /\ query # NoCursor
              used == IF header # NoCursor THEN header ELSE query
          IN CASE both /\ header # query -> reply' = "cursor_invalid"
               [] used = Malformed -> reply' = "cursor_invalid"
               [] used = Unknown -> reply' = "cursor_expired"
               [] OTHER -> FALSE
  /\ reloads' = reloads + 1
  /\ UNCHANGED <<principal, state, cursor, sending, wire, seen, status, breaks>>

\* Mutant of Send: the event that asks for the action waits for the action.
HoldInput ==
  /\ state = "streaming" /\ sending # <<>> /\ Head(sending) # 3
  /\ wire' = Append(wire, Head(sending)) /\ sending' = Tail(sending)
  /\ UNCHANGED <<principal, state, cursor, seen, reply, status, breaks, reloads>>

Send ==
  /\ state = "streaming" /\ sending # <<>>
  /\ wire' = Append(wire, Head(sending)) /\ sending' = Tail(sending)
  /\ UNCHANGED <<principal, state, cursor, seen, reply, status, breaks, reloads>>

CursorSequence(e) == e + 2                               \* mutant of CursorOf
CursorOf(e) == e                                         \* id: of the event

ReceiveEvent ==
  /\ state = "streaming" /\ wire # <<>>
  /\ seen' = Append(seen, Head(wire)) /\ cursor' = CursorOf(Head(wire)) /\ wire' = Tail(wire)
  /\ UNCHANGED <<principal, state, sending, reply, status, breaks, reloads>>

EndStream ==
  /\ state = "streaming" /\ sending = <<>> /\ wire = <<>>
  /\ state' = "ended"
  /\ UNCHANGED <<principal, cursor, sending, wire, seen, reply, status, breaks, reloads>>

BreakStream ==
  /\ state = "streaming" /\ breaks < MaxBreaks
  /\ state' = "known" /\ breaks' = breaks + 1 /\ wire' = <<>>
  /\ UNCHANGED <<principal, cursor, sending, seen, reply, status, reloads>>

LastSequence == 5                                        \* mutant of LastEvent
LastEvent == 4                                           \* of the run the action completes

\* submit_action: the snapshot it returns stands behind the last event.
Submit ==
  /\ state \in {"known", "ended"} /\ ProviderEnabled /\ Authorized /\ reloads < MaxReloads
  /\ \E confirmed \in BOOLEAN :
       IF confirmed THEN cursor' = LastEvent /\ reply' = "" /\ status' = "succeeded"
                    ELSE reply' = "action_denied" /\ UNCHANGED <<cursor, status>>
  /\ reloads' = reloads + 1
  /\ UNCHANGED <<principal, state, sending, wire, seen, breaks>>

Browse == GetRun \/ OpenStream \/ Send \/ ReceiveEvent \/ EndStream
WebNext == Browse \/ OpenRejected \/ BreakStream \/ Submit
WebSpec == WebInit /\ [][WebNext]_webVars

\* The browser goes on, and the server sends what it has.
WebFairness == /\ WF_webVars(OpenStream) /\ WF_webVars(Send)
               /\ WF_webVars(ReceiveEvent) /\ WF_webVars(EndStream)

-----------------------------------------------------------------------------
WebTypeOK == /\ state \in {"new", "known", "streaming", "ended", "refused"}
             /\ cursor \in Ids \cup {NoCursor}
             /\ sending \in UNION {[1..n -> 1..3] : n \in 0..3}

\* stream_run and open_run_stream: wherever streams break, the events received are
\* those of the run, in order, none of them twice and none left out.
InOrderOnce == IsPrefix(seen, Stream)

\* open_run_stream: a stream that ended has brought the browser all the events of
\* the run, unless its snapshot already stood behind them.
EndsComplete == state = "ended" => seen = Stream \/ status = "succeeded"

\* A browser that has read the run comes to the end of its stream.
Followed == (state = "known") ~> (state = "ended")

\* What holds of a browser's stream at every moment: in order, once, and complete
\* when it has ended.
StreamRight == WebTypeOK /\ InOrderOnce /\ EndsComplete
=============================================================================
