------------------------------- MODULE Codec -------------------------------
(***************************************************************************)
(* The payloads of the wire protocol (protocol/protocol.cpp): what each    *)
(* pack function writes and the unpack function of the same name reads,    *)
(* byte by byte, over the writer and the reader of binary.hpp.             *)
(*                                                                         *)
(* A payload has a layout: the sequence of its fields' kinds.  The value   *)
(* of a field is the sequence of its bytes; an optional that is empty has  *)
(* the value <<>>.                                                         *)
(***************************************************************************)
EXTENDS Naturals, Sequences

CONSTANTS
  MaxString,    \* ByteReader::kMaxString: 2^20 in the code
  MaxVector     \* ByteReader::kMaxVector: 2^24 in the code

ASSUME CodecAssumption == MaxString \in Nat /\ MaxVector \in Nat

-----------------------------------------------------------------------------
(* Kinds of fields.                                                        *)

FixedWidth ==
  [u8 |-> 1, flag |-> 1, code |-> 1, state |-> 1, u32 |-> 4, gen |-> 8,
   id |-> 16, digest |-> 32]

OptionalOf == [opt_id |-> "id", opt_gen |-> "gen", opt_digest |-> "digest"]

\* The largest value of each enumeration.
LastCode == 19
LastState == 16

ByteLimit == [string |-> MaxString, bytes |-> MaxVector]

Fixed == DOMAIN FixedWidth
Optional == DOMAIN OptionalOf
Counted == DOMAIN ByteLimit

-----------------------------------------------------------------------------
(* ByteWriter and ByteReader.  Numbers are little-endian.                  *)

Bytes == 0 .. 255

\* 2^26, the largest limit of the code: a payload of fields up to this length has
\* itself a length that u32 holds.
LongField == 67108864

U32Bytes(n) == <<n % 256, (n \div 256) % 256, (n \div 65536) % 256,
                 (n \div 16777216) % 256>>

\* The top byte is capped: the lengths it would tell apart beyond that are
\* above every limit (and above TLC's integers).
U32(b) == b[1] + 256 * b[2] + 65536 * b[3]
            + 16777216 * (IF b[4] < 127 THEN b[4] ELSE 127)

Put(kind, value) ==
  IF kind \in Counted THEN U32Bytes(Len(value)) \o value
  ELSE IF kind \in Optional
       THEN IF value = <<>> THEN <<0>> ELSE <<1>> \o value
  ELSE value

\* What a read leaves: whether it succeeded, the value, the bytes left.
Took(value, rest) == [ok |-> TRUE, value |-> value, rest |-> rest]
Refused == [ok |-> FALSE, value |-> <<>>, rest |-> <<>>]

Drop(s, n) == SubSeq(s, n + 1, Len(s))

\* need(n), then the copy.
GetBytes(n, b) ==
  IF n > Len(b) THEN Refused ELSE Took(SubSeq(b, 1, n), Drop(b, n))

\* An enumeration is checked, any byte but 0 is true.
GetFixed(kind, b) ==
  LET r == GetBytes(FixedWidth[kind], b)
  IN  IF ~r.ok THEN Refused
      ELSE IF kind = "code" /\ r.value[1] > LastCode THEN Refused
      ELSE IF kind = "state" /\ r.value[1] > LastState THEN Refused
      ELSE IF kind = "flag" /\ r.value[1] # 0 THEN Took(<<1>>, r.rest)
      ELSE r

GetCounted(kind, b) ==
  LET n == GetBytes(4, b)
  IN  IF ~n.ok \/ U32(n.value) > ByteLimit[kind] THEN Refused
      ELSE GetBytes(U32(n.value), n.rest)

GetOptional(kind, b) ==
  LET has == GetFixed("flag", b)
  IN  IF ~has.ok THEN Refused
      ELSE IF has.value = <<0>> THEN Took(<<>>, has.rest)
      ELSE GetFixed(OptionalOf[kind], has.rest)

Get(kind, b) ==
  IF kind \in Counted THEN GetCounted(kind, b)
  ELSE IF kind \in Optional THEN GetOptional(kind, b)
  ELSE GetFixed(kind, b)

-----------------------------------------------------------------------------
(* Layouts.                                                                *)

dispatch_ticket ==
  <<"id", "gen", "id", "gen", "id", "id", "gen", "id", "gen", "gen", "gen">>
start_ticket ==
  <<"id", "gen", "id", "gen", "id", "id", "gen", "id", "gen", "gen", "gen">>
completion_ticket ==
  <<"id", "gen", "id", "gen", "id", "id", "gen", "id", "gen", "gen", "gen">>
    \o <<"gen", "opt_digest">>
control_request == <<"id", "gen", "gen", "gen", "gen", "gen">>

hello == <<"u8", "u8", "id", "id", "string">>
welcome == <<"gen", "string", "u32">>
register_ack == <<"flag", "string">>
submit == <<"id", "gen">>
submit_ack == <<"flag", "id", "gen", "state", "string">>
dispatch == <<"id", "gen", "id", "id">>
dispatch_ack == <<"flag", "code", "string">> \o dispatch_ticket
worker_dispatch == dispatch_ticket \o <<"u32", "u32">>
start == start_ticket
complete == completion_ticket \o <<"bytes">>

\* Mutant: a refused completion's ack says so with one more field.
complete_ack_like_decision == <<"code", "string", "opt_id", "opt_gen">>

complete_ack == <<"code", "string", "opt_digest">>
decision == <<"code", "string", "opt_id", "opt_gen">>
cancel == control_request
ack_preempt == <<"id", "gen">>
mark_resumable == <<"id", "gen">>
resume == <<"id", "gen", "gen", "id", "id">>
worker_lost == <<"id", "id", "id", "gen">>
query == <<"id">>
query_response ==
  <<"flag", "id", "state", "gen", "gen", "opt_id", "opt_gen", "gen",
    "opt_digest", "string">>

Layout ==
  [hello |-> hello, welcome |-> welcome, register_ack |-> register_ack,
   submit |-> submit, submit_ack |-> submit_ack, dispatch |-> dispatch,
   dispatch_ack |-> dispatch_ack, worker_dispatch |-> worker_dispatch,
   start |-> start, complete |-> complete, complete_ack |-> complete_ack,
   decision |-> decision, cancel |-> cancel, ack_preempt |-> ack_preempt,
   mark_resumable |-> mark_resumable, resume |-> resume,
   worker_lost |-> worker_lost, query |-> query,
   query_response |-> query_response, empty |-> <<>>]

Forms == DOMAIN Layout

-----------------------------------------------------------------------------
\* The fields are written one after the other.
Pack(form, values) ==
  LET fields == Layout[form]
      packed[n \in 0 .. Len(fields)] ==
        IF n = 0 THEN <<>> ELSE packed[n - 1] \o Put(fields[n], values[n])
  IN  packed[Len(fields)]

\* What is left after the next field was read, if all before it were.
ReadNext(done, kind) ==
  LET r == Get(kind, done.rest)
  IN  IF done.ok /\ r.ok THEN Took(Append(done.value, r.value), r.rest) ELSE Refused

\* The fields one after the other, up to the first that is refused.
ReadFields(form, b) ==
  LET fields == Layout[form]
      read[n \in 0 .. Len(fields)] ==
        IF n = 0 THEN Took(<<>>, b) ELSE ReadNext(read[n - 1], fields[n])
  IN  read[Len(fields)]

\* Mutant: what follows the last field is ignored.
UnpackLeading(form, b) == ReadFields(form, b)

\* r.ok() && r.remaining() == 0
Unpack(form, b) ==
  LET r == ReadFields(form, b)
  IN  IF r.ok /\ r.rest = <<>> THEN r ELSE Refused
=============================================================================
