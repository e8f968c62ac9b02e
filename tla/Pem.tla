--------------------------------- MODULE Pem ---------------------------------
(***************************************************************************)
(* to_pem of gel-dsn/src/gel/config.rs: the PEM text Config::tls_ca_pem   *)
(* gives for the pinned certificates.  A certificate is its DER bytes     *)
(* (0..255).  The text is a sequence of symbols: a base64 digit is its    *)
(* value 0..63, and the padding, the newline, the two armour lines and    *)
(* the zero byte of a fresh buffer are the named symbols below.  ParsePem *)
(* is the reference reader, written from RFC 7468 (strict form) and RFC   *)
(* 4648, independently of the writer.                                     *)
(***************************************************************************)
EXTENDS Integers, Sequences, SequencesExt

Pad   == 64   \* '='
NL    == 65   \* '\n'
Begin == 66   \* "-----BEGIN CERTIFICATE-----"
End   == 67   \* "-----END CERTIFICATE-----"
Nul   == 68   \* a byte of vec![0; ..] not overwritten

(* BASE64_STANDARD (RFC 4648, padded): each group of three bytes gives   *)
(* four digits; a last group of r < 3 bytes gives r + 1 digits and pads. *)
Base64(b) ==
    LET n == Len(b)
        byte(i) == IF i <= n THEN b[i] ELSE 0
        digit(k) ==
            LET j == (k - 1) \div 4
                p == (k - 1) % 4
                x == byte(3*j + 1) * 65536 + byte(3*j + 2) * 256 + byte(3*j + 3)
            IN IF 3*j + p > n THEN Pad ELSE (x \div (2 ^ (6 * (3 - p)))) % 64
    IN [k \in 1..4 * ((n + 2) \div 3) |-> digit(k)]

(* A buffer sized without the slack for a padded last group. *)
BufLenExact(n) == (n * 4) \div 3

(* vec![0; cert.len() * 4 / 3 + 4] *)
BufLen(n) == (n * 4) \div 3 + 4

(* encode_slice into the zeroed buffer: Err when the buffer is shorter   *)
(* than the encoding, else the buffer with the encoding written at its   *)
(* start and the length written.                                         *)
EncodeSlice(b, buflen) ==
    LET e == Base64(b)
    IN IF Len(e) > buflen
       THEN [ok |-> FALSE, buf |-> <<>>, len |-> 0]
       ELSE [ok |-> TRUE, len |-> Len(e),
             buf |-> e \o [i \in 1..buflen - Len(e) |-> Nul]]

(* b64.truncate(len) *)
Truncate(s, len) == SubSeq(s, 1, len)

(* b64.chunks(64): consecutive lines of 64 symbols, the last shorter. *)
Chunks(s, k) ==
    [i \in 1..((Len(s) + k - 1) \div k) |->
        SubSeq(s, (i - 1) * k + 1, IF i * k < Len(s) THEN i * k ELSE Len(s))]

(* The loop body of to_pem for one certificate; ok is FALSE where the   *)
(* .unwrap() on encode_slice panics.                                    *)
PemBlock(cert) ==
    LET r == EncodeSlice(cert, BufLen(Len(cert)))
        lines == Chunks(Truncate(r.buf, r.len), 64)
    IN [ok |-> r.ok,
        text |-> <<Begin, NL>>
                 \o FlattenSeq([i \in 1..Len(lines) |-> lines[i] \o <<NL>>])
                 \o <<End, NL>>]

(* to_pem(certs) *)
ToPem(certs) ==
    [ok |-> \A i \in 1..Len(certs) : PemBlock(certs[i]).ok,
     pem |-> FlattenSeq([i \in 1..Len(certs) |-> PemBlock(certs[i]).text])]
-----------------------------------------------------------------------------
(***************************************************************************)
(* Reference reader.                                                       *)
(***************************************************************************)

(* The lines of a newline-terminated text. *)
RECURSIVE Lines(_)
Lines(s) ==
    IF s = <<>> THEN <<>>
    ELSE LET i == SelectInSeq(s, LAMBDA c : c = NL)
         IN IF i = 0 THEN <<s>>
            ELSE <<SubSeq(s, 1, i - 1)>> \o Lines(SubSeq(s, i + 1, Len(s)))

(* RFC 7468 strict body: full 64-digit lines and a last line of 1..64. *)
StrictBody(body) ==
    /\ Len(body) >= 1
    /\ \A i \in 1..Len(body) : body[i] # <<>>
    /\ \A i \in 1..Len(body) - 1 : Len(body[i]) = 64
    /\ Len(body[Len(body)]) <= 64

(* RFC 4648 decoding: whole groups of four, padding only at the end. *)
Base64Valid(d) ==
    /\ Len(d) % 4 = 0
    /\ \A k \in 1..Len(d) : d[k] \in 0..Pad
    /\ \A k \in 1..Len(d) : d[k] = Pad => k > Len(d) - 2 /\ \A m \in k..Len(d) : d[m] = Pad

Base64Decode(d) ==
    LET pads == Len(SelectSeq(d, LAMBDA c : c = Pad))
        v(k) == IF d[k] = Pad THEN 0 ELSE d[k]
        x(j) == v(4*j + 1) * 262144 + v(4*j + 2) * 4096 + v(4*j + 3) * 64 + v(4*j + 4)
        byte(i) == LET j == (i - 1) \div 3
                       p == (i - 1) % 3
                   IN (x(j) \div (2 ^ (8 * (2 - p)))) % 256
    IN [i \in 1..(3 * (Len(d) \div 4) - pads) |-> byte(i)]

Invalid == [ok |-> FALSE, certs |-> <<>>]

(* The certificates of a run of lines BEGIN, body..., END. *)
RECURSIVE ParseBlocks(_)
ParseBlocks(ls) ==
    IF ls = <<>> THEN [ok |-> TRUE, certs |-> <<>>]
    ELSE LET e == SelectInSeq(ls, LAMBDA l : l = <<End>>)
         IN IF ls[1] # <<Begin>> \/ e < 3 THEN Invalid
            ELSE LET body == SubSeq(ls, 2, e - 1)
                     digits == FlattenSeq(body)
                     rest == ParseBlocks(SubSeq(ls, e + 1, Len(ls)))
                 IN IF StrictBody(body) /\ Base64Valid(digits) /\ rest.ok
                    THEN [ok |-> TRUE, certs |-> <<Base64Decode(digits)>> \o rest.certs]
                    ELSE Invalid

(* A text that ends with a newline, read as PEM certificates. *)
ParsePem(pem) ==
    IF pem # <<>> /\ Last(pem) # NL THEN Invalid ELSE ParseBlocks(Lines(pem))
=============================================================================
