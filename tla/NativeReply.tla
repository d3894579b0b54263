---------------------------- MODULE NativeReply -----------------------------
(***************************************************************************)
(* Which requests the gateway answers itself with a retained transcript    *)
(* (internal/proxy/native_compact.go and Handler of proxy.go).  A host     *)
(* asks for compaction with an ordinary request whose history holds the    *)
(* marker of its prompt, and resends its history with every request, so    *)
(* the gateway must tell a request from a trace of one.                    *)
(*                                                                         *)
(* A message is its role and the marker its text contains.  What a host    *)
(* does with the answer follows the comment at native_compact.go 17: it    *)
(* replaces its history by the summary.  What is retained of a history is  *)
(* CompactHistory's subject.                                               *)
(***************************************************************************)
EXTENDS Absent, Integers, Sequences, FiniteSets, SequencesExt

CONSTANTS
  Quoted,      \* markers that outputs of tools and answers of the model may quote
  MsgMax       \* bound: messages of a history

Agent == {"codex", "grok", "claude"}

ASSUME NativeReplyAssumption ==
  /\ Quoted \subseteq Agent /\ MsgMax \in Nat
  /\ None \notin Agent \cup {"turn", "compaction", "gateway"}

VARIABLES
  agent,       \* the host; its markers have the same name
  enabled,     \* nativeCompactionEnabled, and for Codex JEV_CODEX_NATIVE_COMPACTION
  history,     \* the history of the host
  asking,      \* what its open request is for: None, "turn" or "compaction"
  answered,    \* who answered the last request, what it was for and taken for
  quotes       \* history: a user message quotes Grok's marker

nativeVars == <<agent, enabled, history, asking, answered, quotes>>

Nobody == [by |-> None, for |-> None, kind |-> None]

NativeInit ==
  /\ agent \in Agent /\ enabled \in BOOLEAN
  /\ history = <<>> /\ asking = None /\ answered = Nobody /\ quotes = FALSE

Said(role, mark) == [role |-> role, mark |-> mark]

-----------------------------------------------------------------------------
(* Recognising a request                                                   *)

(* Slip: the latest user message is looked at, wherever it is.             *)
CodexPromptLatest(msgs) ==
  LET spoken == SelectSeq(msgs, LAMBDA m : m.role = "user")
  IN spoken # <<>> /\ Last(spoken).mark = "codex"

CodexCompactPromptAtEnd(msgs) == msgs # <<>> /\ Last(msgs) = Said("user", "codex")

(* A result of a tool is a user message of Claude's, without text.         *)
ClaudeCompactionRequest(msgs) ==
  \E i \in DOMAIN msgs :
    /\ msgs[i] = Said("user", "claude")
    /\ \A j \in DOMAIN msgs : j > i => msgs[j].role = "assistant"

NativeCompactionKind(msgs) ==
  IF agent = "claude" /\ ClaudeCompactionRequest(msgs) THEN "claude"
  ELSE IF CodexCompactPromptAtEnd(msgs) THEN "codex"
  ELSE IF \E i \in DOMAIN msgs : msgs[i] = Said("user", "grok") THEN "grok" ELSE None

(* The text retained of a history: messages of tools are kept or dropped,  *)
(* user messages with a marker are left out (renderRetained).              *)
Transcripts(msgs) ==
  {None} \cup {msgs[i].mark : i \in {j \in DOMAIN msgs : msgs[j].role # "user"}}

-----------------------------------------------------------------------------
(* The host                                                                *)

(* What the user writes may quote Grok's markers, which are plain phrases.  *)
(* Whoever sends the whole prompt of Codex or Claude as his last message   *)
(* has asked for a compaction.                                             *)
UserAsks ==
  /\ asking = None /\ Len(history) < MsgMax
  /\ \E mark \in (Quoted \cap {"grok"}) \cup {None} :
       /\ history' = Append(history, Said("user", mark))
       /\ quotes' = (quotes \/ mark = "grok")
  /\ asking' = "turn" /\ UNCHANGED <<agent, enabled, answered>>

HostCompacts ==
  /\ asking = None /\ history # <<>> /\ Len(history) < MsgMax
  /\ history' = Append(history, Said("user", agent))
  /\ asking' = "compaction" /\ UNCHANGED <<agent, enabled, answered, quotes>>

-----------------------------------------------------------------------------
(* The gateway and the upstream                                            *)

(* The host gets a text: the answer of its turn, or the summary that       *)
(* replaces its history.  A host keeps some of the user's messages beside  *)
(* the summary; what they quote is put to the summary here.                *)
HostReads(mark) ==
  IF asking = "compaction"
    THEN \E kept \in {mark} \cup (IF quotes THEN {"grok"} ELSE {}) :
           history' = <<Said("user", kept)>> /\ quotes' = (kept = "grok")
    ELSE history' = Append(history, Said("assistant", mark)) /\ UNCHANGED quotes

(* retainNative.  Codex and Claude get their own summary instead if the    *)
(* transcript is not a quarter shorter; Grok has no such way out.          *)
AnswerRetained ==
  /\ asking # None /\ enabled
  /\ NativeCompactionKind(history) # None
  /\ \E mark \in Transcripts(history) : HostReads(mark)
  /\ answered' = [by |-> "gateway", for |-> asking, kind |-> NativeCompactionKind(history)]
  /\ asking' = None /\ UNCHANGED <<agent, enabled>>

ForwardRequest ==
  /\ asking # None
  /\ enabled => NativeCompactionKind(history) # "grok"

UpstreamAnswers ==
  /\ ForwardRequest
  /\ \E mark \in Quoted \cup {None} : HostReads(mark)
  /\ answered' = [by |-> "upstream", for |-> asking, kind |-> None]
  /\ asking' = None /\ UNCHANGED <<agent, enabled>>

(* The model calls a tool, in answer to a prompt for compaction as well;   *)
(* the host goes on with the turn and sends the result.                    *)
UpstreamCalls ==
  /\ ForwardRequest /\ Len(history) + 1 < MsgMax
  /\ \E mark \in Quoted \cup {None} :
       history' = history \o <<Said("assistant", None), Said("tool", mark)>>
  /\ answered' = [by |-> "upstream", for |-> asking, kind |-> None]
  /\ asking' = "turn" /\ UNCHANGED <<agent, enabled, quotes>>

NativeNext ==
  \/ UserAsks \/ HostCompacts \/ AnswerRetained \/ UpstreamAnswers \/ UpstreamCalls

NativeSpec == NativeInit /\ [][NativeNext]_nativeVars

-----------------------------------------------------------------------------

NativeTypeOK ==
  /\ agent \in Agent /\ enabled \in BOOLEAN
  /\ history \in Seq([role : {"user", "assistant", "tool"}, mark : Agent \cup {None}])
  /\ asking \in {None, "turn", "compaction"}
  /\ answered \in [by : {None, "gateway", "upstream"}, for : {None, "turn", "compaction"},
                   kind : Agent \cup {None}]
  /\ quotes \in BOOLEAN

(* A transcript is the answer to a request for one: a prompt that was      *)
(* answered upstream and stayed in the history, an output or an answer     *)
(* that quotes one, are not taken for a new request (the comment at        *)
(* native_compact.go 47), and neither is a summary that quotes Codex's or  *)
(* Claude's.  The one exception is Grok's marker: nativeCompactionKind     *)
(* takes it from any message of a user (native_compact.go 57), so a turn   *)
(* is answered with a transcript, as Grok's, once a user or a summary that *)
(* came back as a message of the user quotes it.                           *)
OnlyAskedIsAnswered ==
  answered.by = "gateway" /\ answered.for # "compaction" => answered.kind = "grok" /\ quotes
=============================================================================
