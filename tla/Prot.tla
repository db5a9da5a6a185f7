-------------------------------- MODULE Prot ---------------------------------
(***************************************************************************)
(* The protocol codec src/src/protocol/prot.c: one direction of a          *)
(* connection, from the records that putx and flushw of client.c put in    *)
(* the circular output buffer of the sender, through the socket, to the    *)
(* input buffer from which prot_get decodes them at the other end (the     *)
(* loop of client_process_input, or wait_reply of the client library).     *)
(* Reads and writes move any number of bytes.  The end of the connection   *)
(* is in module Session.                                                   *)
(***************************************************************************)
EXTENDS Naturals, FiniteSets, Sequences, SequencesExt

CONSTANTS
    PROT_MAX_BUFFER_LENGTH,  \* 2000 in the code
    PROT_MAX_FIELDS,         \* 20 in the code
    FS, RS, ESC,  \* field separator, record separator, escape
    Dead,         \* any byte of a buffer outside of its live part
    Letters,      \* other characters
    Records,      \* the records put: sequences of fields
    WireSize,     \* bytes that the socket holds
    MaxPending    \* bound on the records accepted and not yet received

Special == {FS, RS, ESC}
Chars == Special \cup Letters

(* A record of one empty field would be an empty line; none is ever sent. *)
ASSUME ProtAssumption ==
    /\ PROT_MAX_BUFFER_LENGTH \in Nat \ {0} /\ PROT_MAX_FIELDS \in Nat \ {0}
    /\ WireSize \in Nat \ {0} /\ MaxPending \in Nat \ {0}
    /\ Cardinality(Special) = 3 /\ Letters \cap Special = {} /\ Dead \notin Chars
    /\ \A r \in Records : r \in Seq(Seq(Chars)) /\ r \notin {<<>>, << <<>> >>}

VARIABLES
    content,      \* outbuf.content
    pos, count,   \* outbuf.pos and outbuf.count
    wrokcnt,      \* prot->wrokcnt, the bytes of complete records
    task,         \* [pc, record, last]: what the sender is at, see putx
    wire,         \* bytes in the socket
    inbuf,        \* inbuf.content up to inbuf.count
    inpos,        \* inbuf.pos, the bytes already scanned
    fields,       \* prot->fields: NoFields or <<fields of the record>>
    sent          \* records accepted by prot_put and not yet received

outvars == <<content, pos, count, wrokcnt>>
invars == <<inbuf, inpos, fields>>
vars == <<outvars, invars, task, wire, sent>>

N == PROT_MAX_BUFFER_LENGTH
NoFields == <<>>
Idle == [pc |-> "ready", record |-> <<>>, last |-> FALSE]

Init ==
    /\ content = [i \in 0..N - 1 |-> Dead] /\ pos = 0 /\ count = 0 /\ wrokcnt = 0
    /\ task = Idle /\ wire = <<>>
    /\ inbuf = <<>> /\ inpos = 0 /\ fields = NoFields /\ sent = <<>>

-----------------------------------------------------------------------------
(* Encoding. *)

(* Faulty: escapes are not escaped. *)
Escaped_separators(s, i) == s[i] \in {FS, RS}

(* A separator is escaped, an escape where it would be taken for one. *)
Escaped(s, i) ==
    \/ s[i] \in {FS, RS}
    \/ s[i] = ESC /\ (i = Len(s) \/ s[i + 1] \in Special)

buf_put_string(s) ==
    FlattenSeq([i \in DOMAIN s |-> IF Escaped(s, i) THEN <<ESC, s[i]>> ELSE <<s[i]>>])

(* A record as the pieces that are put one after the other: a field, with  *)
(* the separator before it, and at last the end of the record.             *)
Pieces(record) ==
    [i \in DOMAIN record |->
        (IF i = 1 THEN <<>> ELSE <<FS>>) \o buf_put_string(record[i])]
    \o << <<RS>> >>

Encode(record) == FlattenSeq(Pieces(record))

(* What the first n pieces of a record encode, for every record sent. *)
Encoded ==
    [r \in Records |-> [n \in 0..Len(r) + 1 |-> FlattenSeq(SubSeq(Pieces(r), 1, n))]]

(* The output buffer holding bytes from the position at. *)
Holding(at, bytes) ==
    [i \in 0..N - 1 |->
        LET offset == (i + N - at) % N
        IN  IF offset < Len(bytes) THEN bytes[offset + 1] ELSE Dead]
OutBytes == [i \in 1..count |-> content[(pos + i - 1) % N]]

(* Faulty: the pieces that were put stay. *)
prot_put_cancel_kept(bytes) ==
    content' = Holding(pos, bytes) /\ count' = Len(bytes) /\ UNCHANGED wrokcnt

(* Back to the complete records: bytes is what the buffer holds. *)
prot_put_cancel(bytes) ==
    /\ count' = wrokcnt
    /\ content' = Holding(pos, SubSeq(bytes, 1, wrokcnt))
    /\ UNCHANGED wrokcnt

(* Pieces are put while they fit; the record is kept when all of them do.  *)
prot_put(record, kept) ==
    LET pieces == Encoded[record]
        fits(n) == count + Len(pieces[n]) <= N
    IN
    \E put \in DOMAIN pieces :
    /\ fits(put) /\ (put <= Len(record) => ~fits(put + 1))
    /\ kept = (put = Len(record) + 1)
    /\ \/ /\ kept
          /\ content' = Holding(pos, OutBytes \o pieces[put])
          /\ count' = count + Len(pieces[put]) /\ wrokcnt' = count'
          /\ sent' = Append(sent, record)
       \/ ~kept /\ prot_put_cancel(OutBytes \o pieces[put]) /\ UNCHANGED sent
    /\ UNCHANGED pos

-----------------------------------------------------------------------------
(* The sender.  A reply that does not fit is put again after a flush; the  *)
(* last record of an answer (send_done, send_error) is followed by one;    *)
(* the bound on pending records always leaves room for it.                 *)
putx(record, last) ==
    /\ task.pc = "ready"
    /\ Len(sent) < IF last THEN MaxPending ELSE MaxPending - 1
    /\ \E kept \in BOOLEAN :
          /\ prot_put(record, kept)
          /\ task' = CASE ~kept -> [pc |-> "retry", record |-> record, last |-> last]
                       [] kept /\ last -> [Idle EXCEPT !.pc = "flush"]
                       [] kept /\ ~last -> Idle
    /\ UNCHANGED <<invars, wire>>

(* Faulty: the circular buffer does not wrap. *)
buf_write_length_straight(k) ==
    /\ count' = count - k /\ pos' = pos + k
    /\ content' = Holding(pos + k, SubSeq(OutBytes, k + 1, count))

(* k bytes leave the output buffer. *)
buf_write_length(k) ==
    /\ count' = count - k /\ pos' = (pos + k) % N
    /\ content' = Holding((pos + k) % N, SubSeq(OutBytes, k + 1, count))

(* Faulty: nothing is written of a buffer that wraps. *)
prot_write_straight(k) ==
    IF pos + count > N THEN UNCHANGED <<wire, outvars>>
    ELSE /\ wire' = wire \o SubSeq(OutBytes, 1, k)
         /\ buf_write_length(k)
         /\ wrokcnt' = wrokcnt - k

prot_write(k) ==
    /\ wire' = wire \o SubSeq(OutBytes, 1, k)
    /\ buf_write_length(k)
    /\ wrokcnt' = wrokcnt - k

(* One turn of flushw; it polls when the socket is full. *)
flushw ==
    /\ task.pc \in {"retry", "flush"}
    /\ \E k \in 1..wrokcnt : Len(wire) + k <= WireSize /\ prot_write(k)
    /\ UNCHANGED <<invars, task, sent>>

flushed ==
    /\ task.pc = "flush" /\ wrokcnt = 0
    /\ task' = Idle
    /\ UNCHANGED <<outvars, invars, wire, sent>>

(* The second try of putx; a record that fits an empty buffer is kept. *)
putx_again ==
    /\ task.pc = "retry" /\ wrokcnt = 0
    /\ \E kept \in BOOLEAN : prot_put(task.record, kept)
    /\ task' = IF task.last THEN [Idle EXCEPT !.pc = "flush"] ELSE Idle
    /\ UNCHANGED <<invars, wire>>

-----------------------------------------------------------------------------
(* The receiver. *)

(* A record separator ends the record unless an odd number of escapes      *)
(* precedes it.                                                            *)
Escapes(i) == {n \in 1..i - 1 : \A j \in i - n..i - 1 : inbuf[j] = ESC}
EndsRecord(i) == inbuf[i] = RS /\ Cardinality(Escapes(i)) % 2 = 0
buf_scan_end_record(i) ==
    /\ i \in inpos + 1..Len(inbuf) /\ EndsRecord(i)
    /\ \A j \in inpos + 1..i - 1 : ~EndsRecord(j)
Complete == \E i \in DOMAIN inbuf : buf_scan_end_record(i)

DecodeByte(a, c) ==
    CASE a.escaping -> [a EXCEPT !.escaping = FALSE, !.field =
                           @ \o IF c \in Special THEN <<c>> ELSE <<ESC, c>>]
      [] ~a.escaping /\ c = ESC -> [a EXCEPT !.escaping = TRUE]
      [] ~a.escaping /\ c = FS ->
            [a EXCEPT !.fields = Append(@, a.field), !.field = <<>>]
      [] ~a.escaping /\ c \notin {ESC, FS} -> [a EXCEPT !.field = Append(@, c)]

(* As many fields as can be recorded; none of an empty line. *)
FirstFields(f) ==
    SubSeq(f, 1, IF Len(f) < PROT_MAX_FIELDS THEN Len(f) ELSE PROT_MAX_FIELDS)
buf_get_fields(line) ==
    LET end == FoldLeft(DecodeByte,
                        [fields |-> <<>>, field |-> <<>>, escaping |-> FALSE], line)
    IN  IF line = <<>> THEN <<>> ELSE FirstFields(Append(end.fields, end.field))

prot_get ==
    /\ fields = NoFields
    /\ \E i \in DOMAIN inbuf :
          /\ buf_scan_end_record(i)
          /\ fields' = << buf_get_fields(SubSeq(inbuf, 1, i - 1)) >>
          /\ inpos' = i
    /\ UNCHANGED <<outvars, inbuf, task, wire, sent>>

(* Faulty: the record stays in the buffer. *)
buf_crop_none == UNCHANGED inbuf /\ inpos' = inpos

buf_crop == inbuf' = SubSeq(inbuf, inpos + 1, Len(inbuf)) /\ inpos' = 0

(* The record was handled. *)
prot_next ==
    /\ fields # NoFields
    /\ fields' = NoFields
    /\ buf_crop
    /\ sent' = Tail(sent)
    /\ UNCHANGED <<outvars, task, wire>>

(* More is read when there is no complete record and room is left. *)
prot_read ==
    /\ fields = NoFields /\ ~Complete
    /\ \E k \in 1..Len(wire) :
          /\ Len(inbuf) + k <= N
          /\ inbuf' = inbuf \o SubSeq(wire, 1, k)
          /\ wire' = SubSeq(wire, k + 1, Len(wire))
    /\ inpos' = Len(inbuf)
    /\ UNCHANGED <<outvars, task, fields, sent>>

-----------------------------------------------------------------------------
Sender == flushw \/ flushed \/ putx_again
Receiver == prot_get \/ prot_next \/ prot_read

Next ==
    \/ \E record \in Records, last \in BOOLEAN : putx(record, last)
    \/ Sender \/ Receiver

Spec == Init /\ [][Next]_vars

(* Both ends run: flushw goes on until all is written, and the other end   *)
(* reads what it is sent.                                                  *)
FairSpec == Spec /\ WF_vars(Sender) /\ WF_vars(Receiver)

-----------------------------------------------------------------------------
(* Properties. *)

(* Type correctness of the buffers; the output buffer has no dead byte in  *)
(* its live part and only live bytes there.                                *)
TypeOK ==
    /\ content \in [0..N - 1 -> Chars \cup {Dead}]
    /\ pos \in 0..N - 1 /\ count \in 0..N /\ wrokcnt \in 0..count
    /\ \A i \in 1..count : OutBytes[i] # Dead
    /\ Len(inbuf) <= N /\ inpos \in 0..Len(inbuf) /\ Len(wire) <= WireSize

(* The bytes of the two buffers and of the socket are those of the records *)
(* that prot_put accepted and that were not received, whole and in order,  *)
(* across wrapped buffers, partial writes, cancelled records and retries.  *)
StreamIntact ==
    inbuf \o wire \o OutBytes = FlattenSeq([i \in DOMAIN sent |-> Encode(sent[i])])

(* What prot_get gives is the first record in flight as it was put, up to  *)
(* the number of fields that it can hold: separators and escapes in the    *)
(* fields are transparent, wherever the reads cut the stream.              *)
Transparent ==
    fields # NoFields => sent # <<>> /\ fields[1] = FirstFields(sent[1])

(* prot_get never answers -EMSGSIZE, on which both ends break the          *)
(* connection, to a record that prot_put accepted.                         *)
NeverOversize == fields = NoFields /\ ~Complete => Len(inbuf) < N

(* flushw ends, and so does an answer that does not fit the buffer: with a *)
(* reader at the other end, full buffers and a full socket never block     *)
(* each other (FairSpec).                                                  *)
FlushEnds == task.pc # "ready" ~> task.pc = "ready"
=============================================================================
