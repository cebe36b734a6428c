---------------------------- MODULE CrossProcess ----------------------------
(***************************************************************************)
(* The sw8 header of an incoming request: sky_core_cross_process.c and     *)
(* sky_util_base64.c.  A header is the sequence of its fields, what stands *)
(* between the dashes; a field is a sequence of letters, each given by its *)
(* index in sky_base64_map, with 64 for '=' and every other character.     *)
(* (strtok also cuts the script's own $_SERVER["HTTP_SW8"] in pieces, and  *)
(* of the eight fields only the two below are read again.)                 *)
(***************************************************************************)
EXTENDS Integers, Sequences, SequencesExt

NoHeader == <<>>

\* Mutant of Plain: buffer and plain are ints.
PlainWide(b) ==
    <<b[1] * 4 + b[2] \div 16>>
    \o (IF b[3] # 64 THEN <<b[2] * 16 + b[3] \div 4>> ELSE <<>>)
    \o (IF b[4] # 64 THEN <<b[3] * 64 + b[4]>> ELSE <<>>)

\* The bytes of four letters, in the width of a char.
Plain(b) ==
    <<(b[1] * 4 + b[2] \div 16) % 256>>
    \o (IF b[3] # 64 THEN <<(b[2] * 16 + b[3] \div 4) % 256>> ELSE <<>>)
    \o (IF b[4] # 64 THEN <<(b[3] * 64 + b[4]) % 256>> ELSE <<>>)

\* What sky_util_base64_decode writes, with no zero byte behind it; letters after the last four are dropped.
Decoded(cipher) ==
    FlattenSeq([g \in 1..(Len(cipher) \div 4) |-> Plain(SubSeq(cipher, 4 * g - 3, 4 * g))])

\* What strlen sees of bytes, up to the first zero or to where they end.
CString(bytes) ==
    IF \E i \in DOMAIN bytes : bytes[i] = 0
    THEN SubSeq(bytes, 1, (CHOOSE i \in DOMAIN bytes :
                              bytes[i] = 0 /\ \A j \in DOMAIN bytes : j < i => bytes[j] # 0) - 1)
    ELSE bytes

\* Mutant of Tokens: strsep, which keeps empty fields.
AllFields(header) == header

\* strtok never returns an empty field.
Tokens(header) ==
    FlattenSeq([i \in DOMAIN header |-> IF header[i] = <<>> THEN <<>> ELSE <<header[i]>>])

\* The array for the tokens has eight bytes, which is one pointer: with more of
\* them the loop writes behind it, before anything counts them.
Overrun(header) == Len(Tokens(header)) > 1

\* sky_core_cross_process_new fills the context in; otherwise it is all zero,
\* and sky_core_cross_process_set_trace_id puts the segment's own id there.
Continues(header) == Len(Tokens(header)) >= 8

TraceId(header, own) == IF Continues(header) THEN CString(Decoded(Tokens(header)[2])) ELSE own

\* The id goes on with what the memory behind it holds.
RunsOn(header) ==
    Continues(header) /\ LET id == Decoded(Tokens(header)[2]) IN \A i \in DOMAIN id : id[i] # 0
-----------------------------------------------------------------------------
\* How the other agents write a field: base64 with padding.
Encoded(bytes) ==
    LET byte(i) == IF i <= Len(bytes) THEN bytes[i] ELSE 0
        letters(i) ==
            << byte(i) \div 4,
               (byte(i) % 4) * 16 + byte(i + 1) \div 16,
               IF i + 1 <= Len(bytes) THEN (byte(i + 1) % 16) * 4 + byte(i + 2) \div 64 ELSE 64,
               IF i + 2 <= Len(bytes) THEN byte(i + 2) % 64 ELSE 64 >>
    IN  FlattenSeq([g \in 1..((Len(bytes) + 2) \div 3) |-> letters(3 * g - 2)])

\* A header as the protocol wants it: eight fields, more in a later version of
\* it, and something in each.
Complete(header) == Len(header) >= 8 /\ \A i \in DOMAIN header : header[i] # <<>>
=============================================================================
