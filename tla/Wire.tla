-------------------------------- MODULE Wire --------------------------------
(***************************************************************************)
(* The messages between the daemon and the session holder: the generated   *)
(* FlatBuffers tables, the catalog of ordinals, who understands which, and *)
(* the metadata patch that tells an absent string from an empty one.       *)
(*                                                                         *)
(* For each table T of the generated code                                  *)
(*    T     what T::create writes, field by field, in the order it writes: *)
(*          <<field, type, slot of the vtable, bytes>>                     *)
(*    TRef  what the getters of TRef read: <<field, type, slot>>           *)
(* The two were generated apart and hard-code the slots apart; that they   *)
(* agree is what makes a message mean the same to both processes.          *)
(***************************************************************************)
EXTENDS Naturals, Integers, Sequences, FiniteSets, SequencesExt

Null == "null"

(* A value that equals its default is not written; a reader supplies it.   *)
(* An optional one (string, vector, table) defaults to absent.             *)
Default == [u64 |-> 0, i64 |-> 0, u32 |-> 0, i32 |-> 0, u16 |-> 0, bool |-> FALSE,
            AttachMode |-> "FromCursor", DetachReason |-> "Superseded", str |-> Null,
            strs |-> Null, kvs |-> Null, record |-> Null, records |-> Null, bytes |-> Null]

(* The bytes a value, or the offset of an optional one, takes.             *)
Width == [u64 |-> 8, i64 |-> 8, u32 |-> 4, i32 |-> 4, u16 |-> 2, bool |-> 1,
          AttachMode |-> 1, DetachReason |-> 1, str |-> 4,
          strs |-> 4, kvs |-> 4, record |-> 4, records |-> 4, bytes |-> 4]

(* An enum is one byte; a byte that names no variant is an error.          *)
AttachMode   == <<"FromCursor", "LiveOnly", "FromEarliest">>
DetachReason == <<"Superseded", "Killed", "Backpressure", "ServerShutdown", "Purged">>
-----------------------------------------------------------------------------
Kv == << <<"key", "str", 0, 4>>, <<"value", "str", 1, 4>> >>
KvRef == { <<"key", "str", 0>>, <<"value", "str", 1>> }

SessionRecord == << <<"head_cursor", "u64", 7, 8>>, <<"tail_cursor", "u64", 8, 8>>,
    <<"ring_capacity", "u64", 9, 8>>, <<"created_at_unix_ms", "i64", 10, 8>>,
    <<"id", "str", 0, 4>>, <<"pid", "i32", 2, 4>>, <<"exit_code", "i32", 3, 4>>,
    <<"exit_signal", "i32", 4, 4>>, <<"command", "str", 11, 4>>, <<"metadata", "kvs", 12, 4>>,
    <<"cols", "u16", 5, 2>>, <<"rows", "u16", 6, 2>>, <<"alive", "bool", 1, 1>> >>
SessionRecordRef == { <<"id", "str", 0>>, <<"alive", "bool", 1>>, <<"pid", "i32", 2>>,
    <<"exit_code", "i32", 3>>, <<"exit_signal", "i32", 4>>, <<"cols", "u16", 5>>,
    <<"rows", "u16", 6>>, <<"head_cursor", "u64", 7>>, <<"tail_cursor", "u64", 8>>,
    <<"ring_capacity", "u64", 9>>, <<"created_at_unix_ms", "i64", 10>>, <<"command", "str", 11>>,
    <<"metadata", "kvs", 12>> }

Error == << <<"rpc_id", "u64", 0, 8>>, <<"earliest_cursor", "u64", 4, 8>>,
    <<"code", "u32", 1, 4>>, <<"message", "str", 2, 4>>, <<"session_id", "str", 3, 4>> >>
ErrorRef == { <<"rpc_id", "u64", 0>>, <<"code", "u32", 1>>, <<"message", "str", 2>>,
    <<"session_id", "str", 3>>, <<"earliest_cursor", "u64", 4>> }

HelloRequest == << <<"rpc_id", "u64", 0, 8>>, <<"client_pid", "i32", 1, 4>>,
    <<"client_name", "str", 2, 4>>, <<"protocol_min", "u16", 3, 2>>,
    <<"protocol_max", "u16", 4, 2>> >>
HelloRequestRef == { <<"rpc_id", "u64", 0>>, <<"client_pid", "i32", 1>>,
    <<"client_name", "str", 2>>, <<"protocol_min", "u16", 3>>, <<"protocol_max", "u16", 4>> }

HelloResponse == << <<"rpc_id", "u64", 0, 8>>, <<"started_at_unix_ms", "i64", 5, 8>>,
    <<"server_pid", "i32", 1, 4>>, <<"binary_sha256", "str", 2, 4>>,
    <<"session_count", "u32", 4, 4>>, <<"instance_id", "str", 6, 4>>,
    <<"protocol", "u16", 3, 2>> >>
HelloResponseRef == { <<"rpc_id", "u64", 0>>, <<"server_pid", "i32", 1>>,
    <<"binary_sha256", "str", 2>>, <<"protocol", "u16", 3>>, <<"session_count", "u32", 4>>,
    <<"started_at_unix_ms", "i64", 5>>, <<"instance_id", "str", 6>> }

CreateRequest == << <<"rpc_id", "u64", 0, 8>>, <<"ring_capacity", "u64", 8, 8>>,
    <<"command", "str", 1, 4>>, <<"args", "strs", 2, 4>>, <<"cwd", "str", 3, 4>>,
    <<"env", "kvs", 4, 4>>, <<"metadata", "kvs", 7, 4>>, <<"session_id", "str", 9, 4>>,
    <<"cols", "u16", 5, 2>>, <<"rows", "u16", 6, 2>> >>
CreateRequestRef == { <<"rpc_id", "u64", 0>>, <<"command", "str", 1>>, <<"args", "strs", 2>>,
    <<"cwd", "str", 3>>, <<"env", "kvs", 4>>, <<"cols", "u16", 5>>, <<"rows", "u16", 6>>,
    <<"metadata", "kvs", 7>>, <<"ring_capacity", "u64", 8>>, <<"session_id", "str", 9>> }

CreateResponse == << <<"rpc_id", "u64", 0, 8>>, <<"session", "record", 1, 4>> >>
CreateResponseRef == { <<"rpc_id", "u64", 0>>, <<"session", "record", 1>> }

KillRequest == << <<"rpc_id", "u64", 0, 8>>, <<"session_id", "str", 1, 4>>,
    <<"signal", "i32", 2, 4>> >>
KillRequestRef == { <<"rpc_id", "u64", 0>>, <<"session_id", "str", 1>>, <<"signal", "i32", 2>> }

KillResponse == << <<"rpc_id", "u64", 0, 8>> >>
KillResponseRef == { <<"rpc_id", "u64", 0>> }

PurgeRequest == << <<"rpc_id", "u64", 0, 8>>, <<"session_id", "str", 1, 4>> >>
PurgeRequestRef == { <<"rpc_id", "u64", 0>>, <<"session_id", "str", 1>> }

PurgeResponse == << <<"rpc_id", "u64", 0, 8>> >>
PurgeResponseRef == { <<"rpc_id", "u64", 0>> }

ListRequest == << <<"rpc_id", "u64", 0, 8>> >>
ListRequestRef == { <<"rpc_id", "u64", 0>> }

ListResponse == << <<"rpc_id", "u64", 0, 8>>, <<"sessions", "records", 1, 4>> >>
ListResponseRef == { <<"rpc_id", "u64", 0>>, <<"sessions", "records", 1>> }

UpdateMetadataRequest == << <<"rpc_id", "u64", 0, 8>>, <<"session_id", "str", 1, 4>>,
    <<"patch", "kvs", 2, 4>> >>
UpdateMetadataRequestRef == { <<"rpc_id", "u64", 0>>, <<"session_id", "str", 1>>,
    <<"patch", "kvs", 2>> }

UpdateMetadataResponse == << <<"rpc_id", "u64", 0, 8>>, <<"session", "record", 1, 4>> >>
UpdateMetadataResponseRef == { <<"rpc_id", "u64", 0>>, <<"session", "record", 1>> }

ResizeRequest == << <<"rpc_id", "u64", 0, 8>>, <<"session_id", "str", 1, 4>>,
    <<"cols", "u16", 2, 2>>, <<"rows", "u16", 3, 2>> >>
ResizeRequestRef == { <<"rpc_id", "u64", 0>>, <<"session_id", "str", 1>>, <<"cols", "u16", 2>>,
    <<"rows", "u16", 3>> }

ResizeResponse == << <<"rpc_id", "u64", 0, 8>> >>
ResizeResponseRef == { <<"rpc_id", "u64", 0>> }

ReadBufferRequest == << <<"rpc_id", "u64", 0, 8>>, <<"from_cursor", "u64", 2, 8>>,
    <<"max_bytes", "u64", 3, 8>>, <<"session_id", "str", 1, 4>> >>
ReadBufferRequestRef == { <<"rpc_id", "u64", 0>>, <<"session_id", "str", 1>>,
    <<"from_cursor", "u64", 2>>, <<"max_bytes", "u64", 3>> }

ReadBufferResponse == << <<"rpc_id", "u64", 0, 8>>, <<"from_cursor", "u64", 1, 8>>,
    <<"head_cursor", "u64", 2, 8>>, <<"data", "bytes", 3, 4>> >>
ReadBufferResponseRef == { <<"rpc_id", "u64", 0>>, <<"from_cursor", "u64", 1>>,
    <<"head_cursor", "u64", 2>>, <<"data", "bytes", 3>> }

AttachRequest == << <<"rpc_id", "u64", 0, 8>>, <<"from_cursor", "u64", 3, 8>>,
    <<"session_id", "str", 1, 4>>, <<"mode", "AttachMode", 2, 1>> >>
AttachRequestRef == { <<"rpc_id", "u64", 0>>, <<"session_id", "str", 1>>,
    <<"mode", "AttachMode", 2>>, <<"from_cursor", "u64", 3>> }

AttachResponse == << <<"rpc_id", "u64", 0, 8>>, <<"head_cursor", "u64", 1, 8>> >>
AttachResponseRef == { <<"rpc_id", "u64", 0>>, <<"head_cursor", "u64", 1>> }

DetachRequest == << <<"rpc_id", "u64", 0, 8>>, <<"session_id", "str", 1, 4>> >>
DetachRequestRef == { <<"rpc_id", "u64", 0>>, <<"session_id", "str", 1>> }

DetachResponse == << <<"rpc_id", "u64", 0, 8>> >>
DetachResponseRef == { <<"rpc_id", "u64", 0>> }

SessionExited == << <<"head_cursor", "u64", 3, 8>>, <<"session_id", "str", 0, 4>>,
    <<"exit_code", "i32", 1, 4>>, <<"exit_signal", "i32", 2, 4>> >>
SessionExitedRef == { <<"session_id", "str", 0>>, <<"exit_code", "i32", 1>>,
    <<"exit_signal", "i32", 2>>, <<"head_cursor", "u64", 3>> }

SessionDetached == << <<"last_cursor", "u64", 2, 8>>, <<"session_id", "str", 0, 4>>,
    <<"reason", "DetachReason", 1, 1>> >>
SessionDetachedRef == { <<"session_id", "str", 0>>, <<"reason", "DetachReason", 1>>,
    <<"last_cursor", "u64", 2>> }

SessionInput == << <<"session_id", "str", 0, 4>>, <<"data", "bytes", 1, 4>> >>
SessionInputRef == { <<"session_id", "str", 0>>, <<"data", "bytes", 1>> }

SessionOutput == << <<"head_cursor", "u64", 1, 8>>, <<"session_id", "str", 0, 4>>,
    <<"data", "bytes", 2, 4>> >>
SessionOutputRef == { <<"session_id", "str", 0>>, <<"head_cursor", "u64", 1>>,
    <<"data", "bytes", 2>> }

Heartbeat == << <<"unix_ms", "i64", 0, 8>> >>
HeartbeatRef == { <<"unix_ms", "i64", 0>> }
-----------------------------------------------------------------------------
(* A serialised table is its vtable: a function from the slots present to  *)
(* what lies there.                                                        *)
Fields(T) == {T[i][1] : i \in DOMAIN T}
Present(T, v) == {i \in DOMAIN T : v[T[i][1]] # Default[T[i][2]]}

Serialize(T, v) ==
  [k \in {T[i][3] : i \in Present(T, v)} |->
     LET i == CHOOSE i \in DOMAIN T : T[i][3] = k IN [type |-> T[i][2], val |-> v[T[i][1]]]]

(* What a getter makes of a slot.  A reader of another type would make     *)
(* something else of the same bytes.                                       *)
Access(r, buf) ==
  IF r[3] \notin DOMAIN buf THEN Default[r[2]]
  ELSE IF buf[r[3]].type = r[2] THEN buf[r[3]].val ELSE "misread"

Parse(R, buf) ==
  [f \in {r[1] : r \in R} |-> Access(CHOOSE r \in R : r[1] = f, buf)]

(* What makes a writer and a reader of one table agree: the same field at  *)
(* the same slot with the same type, each slot and each field once.        *)
Agree(T, R) ==
  /\ R = {<<T[i][1], T[i][2], T[i][3]>> : i \in DOMAIN T}
  /\ \A i, j \in DOMAIN T : T[i][1] = T[j][1] \/ T[i][3] = T[j][3] => i = j

(* The table as a peer built before fields k, k + 1, ... were added has it.*)
Older(R, k) == {r \in R : r[3] < k}

(* No slot is skipped, and the object is written widest value first, so    *)
(* that every value is aligned without padding.                            *)
Dense(T) == {T[i][3] : i \in DOMAIN T} = 0..(Len(T) - 1)
Packed(T) ==
  /\ \A i \in DOMAIN T : T[i][4] = Width[T[i][2]]
  /\ \A i \in 1..(Len(T) - 1) : T[i][4] >= T[i + 1][4]
-----------------------------------------------------------------------------
(* The catalog: ordinal, table, reader.                                    *)
Catalog ==
  [HELLO_REQUEST |-> <<0, HelloRequest, HelloRequestRef>>,
   HELLO_RESPONSE |-> <<1, HelloResponse, HelloResponseRef>>,
   CREATE_REQUEST |-> <<2, CreateRequest, CreateRequestRef>>,
   CREATE_RESPONSE |-> <<3, CreateResponse, CreateResponseRef>>,
   KILL_REQUEST |-> <<4, KillRequest, KillRequestRef>>,
   KILL_RESPONSE |-> <<5, KillResponse, KillResponseRef>>,
   PURGE_REQUEST |-> <<6, PurgeRequest, PurgeRequestRef>>,
   PURGE_RESPONSE |-> <<7, PurgeResponse, PurgeResponseRef>>,
   LIST_REQUEST |-> <<8, ListRequest, ListRequestRef>>,
   LIST_RESPONSE |-> <<9, ListResponse, ListResponseRef>>,
   UPDATE_METADATA_REQUEST |-> <<10, UpdateMetadataRequest, UpdateMetadataRequestRef>>,
   UPDATE_METADATA_RESPONSE |-> <<11, UpdateMetadataResponse, UpdateMetadataResponseRef>>,
   RESIZE_REQUEST |-> <<12, ResizeRequest, ResizeRequestRef>>,
   RESIZE_RESPONSE |-> <<13, ResizeResponse, ResizeResponseRef>>,
   READ_BUFFER_REQUEST |-> <<14, ReadBufferRequest, ReadBufferRequestRef>>,
   READ_BUFFER_RESPONSE |-> <<15, ReadBufferResponse, ReadBufferResponseRef>>,
   ATTACH_REQUEST |-> <<16, AttachRequest, AttachRequestRef>>,
   ATTACH_RESPONSE |-> <<17, AttachResponse, AttachResponseRef>>,
   DETACH_REQUEST |-> <<20, DetachRequest, DetachRequestRef>>,
   DETACH_RESPONSE |-> <<21, DetachResponse, DetachResponseRef>>,
   SESSION_EXITED |-> <<100, SessionExited, SessionExitedRef>>,
   SESSION_DETACHED |-> <<101, SessionDetached, SessionDetachedRef>>,
   ERROR |-> <<200, Error, ErrorRef>>,
   SESSION_INPUT |-> <<300, SessionInput, SessionInputRef>>,
   SESSION_OUTPUT |-> <<301, SessionOutput, SessionOutputRef>>,
   HEARTBEAT |-> <<400, Heartbeat, HeartbeatRef>>]

Messages == DOMAIN Catalog
Ordinal(m) == Catalog[m][1]

(* What the holder dispatches; any other ordinal is reported with rpc id 0,*)
(* which no caller waits for.                                              *)
Dispatched ==
  {"HELLO_REQUEST", "CREATE_REQUEST", "KILL_REQUEST", "PURGE_REQUEST", "LIST_REQUEST",
   "UPDATE_METADATA_REQUEST", "RESIZE_REQUEST", "READ_BUFFER_REQUEST", "ATTACH_REQUEST",
   "DETACH_REQUEST", "SESSION_INPUT", "HEARTBEAT"}

(* What the client hands to a route, and what to the caller whose rpc id   *)
(* it carries.                                                             *)
Routed == {"SESSION_OUTPUT", "SESSION_EXITED", "SESSION_DETACHED", "HEARTBEAT"}
Replies ==
  {"HELLO_RESPONSE", "CREATE_RESPONSE", "KILL_RESPONSE", "PURGE_RESPONSE", "LIST_RESPONSE",
   "UPDATE_METADATA_RESPONSE", "RESIZE_RESPONSE", "READ_BUFFER_RESPONSE", "ATTACH_RESPONSE",
   "DETACH_RESPONSE", "ERROR"}
OneWay == {"SESSION_INPUT", "HEARTBEAT"}

(* The reply the holder encodes to the request with ordinal n is n + 1.    *)
ReplyTo(m) == CHOOSE r \in Messages : Ordinal(r) = Ordinal(m) + 1
-----------------------------------------------------------------------------
(* patch_metadata over read_kv_patch: entries of the patch in order; a     *)
(* value, the empty one too, sets its key, none deletes it, and an entry   *)
(* without a key is skipped.                                               *)
PatchOne(md, kv) ==
  LET rest == SelectSeq(md, LAMBDA e : e[1] # kv[1]) IN
  IF kv[1] \in {Null, ""} THEN md
  ELSE IF kv[2] = Null THEN rest ELSE Append(rest, kv)

Patch(md, patch) == FoldLeft(PatchOne, md, patch)
-----------------------------------------------------------------------------
(* Every message is written and read alike, densely and packed, under an   *)
(* ordinal of its own.  (WireProofs has what follows for every value.)     *)
ASSUME TablesAgree ==
  /\ \A m \in Messages : LET T == Catalog[m][2] IN Agree(T, Catalog[m][3]) /\ Dense(T) /\ Packed(T)
  /\ Agree(Kv, KvRef) /\ Agree(SessionRecord, SessionRecordRef)
  /\ \A m, n \in Messages : Ordinal(m) = Ordinal(n) => m = n

(* Every request that is dispatched has a reply the client can match to    *)
(* its caller: both carry the rpc id in slot 0.  Nothing the client can    *)
(* be sent is of an ordinal it does not know.                              *)
ASSUME RepliesMatch ==
  /\ \A m \in Dispatched \ OneWay :
       /\ \E r \in Messages : Ordinal(r) = Ordinal(m) + 1
       /\ ReplyTo(m) \in Replies
       /\ <<"rpc_id", "u64", 0>> \in Catalog[m][3]
  /\ \A r \in Replies : <<"rpc_id", "u64", 0>> \in Catalog[r][3]
  /\ Messages = Dispatched \cup Routed \cup Replies

(* Setting to "" keeps the key and deleting drops it, whatever was there;  *)
(* a key occurs once, and the last entry for it in a patch decides.        *)
PatchKeys == {"a", "b"}
ASSUME PatchDecides ==
  \A md \in {<<>>, << <<"a", "x">> >>, << <<"a", "x">>, <<"b", "">> >>},
     p \in SeqOf(({Null, ""} \cup PatchKeys) \X {Null, "", "x"}, 2) :
    LET out == Patch(md, p)
        At(s, k) == SelectSeq(s, LAMBDA e : e[1] = k) IN
    \A k \in PatchKeys :
      /\ Len(At(out, k)) <= 1
      /\ At(out, k) = IF At(p, k) = <<>> THEN At(md, k)
                      ELSE SelectSeq(<<Last(At(p, k))>>, LAMBDA e : e[2] # Null)
=============================================================================
