------------------------------- MODULE Sessions -------------------------------
(***************************************************************************)
(* The session store and those who write to it: the HTTP handlers that      *)
(* create, archive and list sessions, the runs of the server and the        *)
(* command line, and TodoWrite.  A message is an insert, an update of its   *)
(* session's time whose failure nobody sees, and an insert for its part;    *)
(* each is a statement of its own, which may fail when another connection   *)
(* has the database.  A run may stop anywhere.  Times are whole seconds.    *)
(***************************************************************************)
EXTENDS Naturals, Sequences, FiniteSets

CONSTANTS
  Writers,       \* the runs
  MaxSessions,   \* bound on the sessions, numbered as they are made
  MaxWrites,     \* bound on the messages of a run
  MaxSecond      \* bound on the clock

ASSUME SessionsAssumption ==
  MaxSessions \in Nat /\ MaxWrites \in Nat /\ MaxSecond \in Nat

VARIABLES
  second,    \* the clock
  sessions,  \* the table: updated_at and archived_at, in order of rowid
  messages,  \* the table: session, writer, number and created_at, by rowid
  parts,     \* the messages (rows) that have their part
  writer     \* each run: where it is, its session, and the message it writes

sessVars == <<second, sessions, messages, parts, writer>>

Steps == {"idle", "admitted", "turn", "insert", "touch", "part"}
NewWriter ==
  [at |-> "idle", session |-> 0, n |-> 0, stamp |-> 0, todo |-> FALSE,
   row |-> 0, reported |-> {}]

SessInit ==
  /\ second = 0
  /\ sessions = <<>> /\ messages = <<>> /\ parts = {}
  /\ writer = [r \in Writers |-> NewWriter]

-----------------------------------------------------------------------------
(* What the queries return.                                                 *)

\* ListSessions: ORDER BY updated_at DESC, by its index.
Newer(i, j) == \/ sessions[i].updated > sessions[j].updated
               \/ sessions[i].updated = sessions[j].updated /\ i < j

\* latestSessionID: the first that is not archived.
LatestSession ==
  {i \in DOMAIN sessions :
     /\ ~sessions[i].archived
     /\ \A j \in DOMAIN sessions \ {i} : ~sessions[j].archived => Newer(i, j)}

\* Mutation: ties are left to the database.
BeforeByTime(i, j) == messages[i].at < messages[j].at

\* GetMessages: ORDER BY created_at ASC, by its index, which keeps the rows of
\* one second in their own order.
Before(i, j) == \/ messages[i].at < messages[j].at
                \/ messages[i].at = messages[j].at /\ i < j

Thread(s) == {i \in DOMAIN messages : messages[i].session = s}

-----------------------------------------------------------------------------
(* Sessions.                                                                *)

Tick ==
  /\ second < MaxSecond /\ second' = second + 1
  /\ UNCHANGED <<sessions, messages, parts, writer>>

NewSession == Append(sessions, [updated |-> second, archived |-> FALSE])

\* handleSessionCreate, CreateSession.
CreateSession ==
  /\ Len(sessions) < MaxSessions
  /\ sessions' = NewSession
  /\ UNCHANGED <<second, messages, parts, writer>>

\* handleSessionArchive, ArchiveSession.
ArchiveSession(s) ==
  /\ sessions' = [sessions EXCEPT ![s] = [updated |-> second, archived |-> TRUE]]
  /\ UNCHANGED <<second, messages, parts, writer>>

-----------------------------------------------------------------------------
(* Runs.                                                                    *)

Admit(r, s) ==
  /\ writer[r].at = "idle"
  /\ writer' = [writer EXCEPT ![r].at = "admitted", ![r].session = s]
  /\ UNCHANGED <<second, sessions, messages, parts>>

\* handleSessionPrompt refuses an archived session; run --resume takes any id;
\* run --continue takes the latest; run alone none.
AdmitOnServer(r) == \E s \in DOMAIN sessions : ~sessions[s].archived /\ Admit(r, s)
AdmitResume(r) == \E s \in DOMAIN sessions : Admit(r, s)
AdmitContinue(r) == \E s \in LatestSession : Admit(r, s)
AdmitNew(r) == Admit(r, 0)

\* ensureSession.
EnsureSession(r) ==
  /\ writer[r].at = "admitted"
  /\ LET s == IF writer[r].session = 0 THEN Len(sessions) + 1 ELSE writer[r].session
     IN  /\ s <= MaxSessions
         /\ sessions' = IF s \in DOMAIN sessions THEN sessions ELSE NewSession
         /\ writer' = [writer EXCEPT ![r].at = "turn", ![r].session = s]
  /\ UNCHANGED <<second, messages, parts>>

\* The message is done with.
Turn(w) == [w EXCEPT !.at = "turn", !.stamp = 0, !.row = 0, !.todo = FALSE]

\* AppendMessage of a turn or of TodoWrite takes its time, and waits its turn.
Stamp(r, todo) ==
  /\ writer[r].at = "turn" /\ writer[r].n < MaxWrites
  /\ writer' = [writer EXCEPT ![r].at = "insert", ![r].n = @ + 1,
                              ![r].stamp = second, ![r].todo = todo]
  /\ UNCHANGED <<second, sessions, messages, parts>>

InsertMessage(r) ==
  /\ writer[r].at = "insert"
  /\ messages' = Append(messages, [session |-> writer[r].session, by |-> r,
                                   n |-> writer[r].n, at |-> writer[r].stamp])
  /\ writer' = [writer EXCEPT ![r].at = "touch", ![r].row = Len(messages')]
  /\ UNCHANGED <<second, sessions, parts>>

TouchSession(r) ==
  /\ writer[r].at = "touch"
  /\ \/ sessions' = [sessions EXCEPT ![writer[r].session].updated = writer[r].stamp]
     \/ UNCHANGED sessions
  /\ writer' = [writer EXCEPT ![r].at = "part"]
  /\ UNCHANGED <<second, messages, parts>>

Reported(r) == writer[r].reported \cup (IF writer[r].todo THEN {writer[r].row} ELSE {})

AppendPart(r) ==
  /\ writer[r].at = "part"
  /\ parts' = parts \cup {writer[r].row}
  /\ writer' = [writer EXCEPT ![r] = [Turn(@) EXCEPT !.reported = Reported(r)]]
  /\ UNCHANGED <<second, sessions, messages>>

\* Mutation: TodoWrite does not look at the part's error.
WriteFailsUnseen(r) ==
  /\ writer[r].at = "part"
  /\ writer' = [writer EXCEPT ![r] = [Turn(@) EXCEPT !.reported = Reported(r)]]
  /\ UNCHANGED <<second, sessions, messages, parts>>

\* An insert fails: the agent goes on without, TodoWrite reports the error.
WriteFails(r) ==
  /\ writer[r].at \in {"insert", "part"}
  /\ writer' = [writer EXCEPT ![r] = Turn(@)]
  /\ UNCHANGED <<second, sessions, messages, parts>>

SessNext ==
  \/ Tick \/ CreateSession
  \/ \E s \in DOMAIN sessions : ArchiveSession(s)
  \/ \E r \in Writers :
       \/ AdmitOnServer(r) \/ AdmitResume(r) \/ AdmitContinue(r) \/ AdmitNew(r)
       \/ EnsureSession(r) \/ \E todo \in BOOLEAN : Stamp(r, todo)
       \/ InsertMessage(r) \/ TouchSession(r) \/ AppendPart(r)
       \/ WriteFails(r)

SessSpec == SessInit /\ [][SessNext]_sessVars

-----------------------------------------------------------------------------
(* Properties.                                                              *)

SessTypeOK ==
  /\ second \in 0..MaxSecond
  /\ sessions \in Seq([updated : 0..MaxSecond, archived : BOOLEAN])
  /\ Len(sessions) <= MaxSessions
  /\ messages \in Seq([session : DOMAIN sessions, by : Writers,
                       n : 1..MaxWrites, at : 0..MaxSecond])
  /\ parts \subseteq DOMAIN messages
  /\ \A r \in Writers : /\ writer[r].at \in Steps
                        /\ writer[r].session \in 0..MaxSessions
                        /\ writer[r].reported \subseteq DOMAIN messages

\* Whatever runs share a session, and within however few seconds they write,
\* the messages of each come back in the order it wrote them, none twice.
EachRunInOrder ==
  \A s \in DOMAIN sessions : \A i, j \in Thread(s) :
    messages[i].by = messages[j].by /\ i # j =>
      (messages[i].n < messages[j].n <=> Before(i, j))

\* A list TodoWrite has reported as stored is in its session's thread, whole.
ReportedTodosAreStored ==
  \A r \in Writers : writer[r].reported \subseteq Thread(writer[r].session) \cap parts
=============================================================================
