---------------------------- MODULE MatterCodes ----------------------------
(***************************************************************************)
(* The setup codes of a device (domain/matter): what its label says, as a  *)
(* QR payload and as digits, and what the add form makes of the text that  *)
(* a person or a camera brings (readCredential). A text is a sequence of   *)
(* places in the alphabet, with a space and a letter outside of it.        *)
(***************************************************************************)
EXTENDS Integers, Sequences, SequencesExt

CONSTANTS Labels    \* the onboarding payloads that labels carry

VARIABLES
    label,    \* the device the text was printed for
    text,     \* what reaches readCredential: [scheme, body]
    slip,     \* what happened between the label and the text
    read      \* readCredential's answer, Unanswered before it, Refused if it threw

vars == <<label, text, slip, read>>

Unanswered == [answer |-> "none"]
Refused == [answer |-> "refused"]

Dash == 36   Space == 38   Foreign == 39
Digit      == 0..9
Characters == 0..39
Separator  == {Dash, Space}

Total(f, S) == FoldFunctionOnSet(+, 0, f, S)
-----------------------------------------------------------------------------
(* base38.ts *)

RADIX == 38
CHARS_PER_BYTE_COUNT == [n \in 1..3 |-> <<2, 4, 5>>[n]]
BYTE_COUNT_PER_CHARS == [n \in {2, 4, 5} |-> (n \div 2) + (n % 2)]

\* The s in pieces of n, the last of them with what is left.
Pieces(s, n) == [c \in 1 .. (Len(s) + n - 1) \div n |->
                    SubSeq(s, n * (c - 1) + 1, IF n * c < Len(s) THEN n * c ELSE Len(s))]

\* The digits to the base, the first the least.
Value(digits, base) == Total([i \in DOMAIN digits |-> digits[i] * base ^ (i - 1)], DOMAIN digits)

EncodedChunk(bytes) ==
    [d \in 1 .. CHARS_PER_BYTE_COUNT[Len(bytes)] |->
        (Value(bytes, 256) \div RADIX ^ (d - 1)) % RADIX]

EncodeBase38(bytes) ==
    FlattenSeq([c \in DOMAIN Pieces(bytes, 3) |-> EncodedChunk(Pieces(bytes, 3)[c])])

\* Mutant: a value too large for its bytes is cut to them.
ChunkReadsCut(chars) ==
    /\ Len(chars) \in DOMAIN BYTE_COUNT_PER_CHARS
    /\ \A d \in DOMAIN chars : chars[d] < RADIX

ChunkReads(chars) ==
    /\ Len(chars) \in DOMAIN BYTE_COUNT_PER_CHARS
    /\ \A d \in DOMAIN chars : chars[d] < RADIX
    /\ Value(chars, RADIX) < 256 ^ BYTE_COUNT_PER_CHARS[Len(chars)]

DecodedChunk(chars) ==
    [b \in 1 .. BYTE_COUNT_PER_CHARS[Len(chars)] |->
        (Value(chars, RADIX) \div 256 ^ (b - 1)) % 256]

IsBase38(chars) == \A c \in DOMAIN Pieces(chars, 5) : ChunkReads(Pieces(chars, 5)[c])

DecodeBase38(chars) ==
    FlattenSeq([c \in DOMAIN Pieces(chars, 5) |-> DecodedChunk(Pieces(chars, 5)[c])])
-----------------------------------------------------------------------------
(* payload.ts: the struct's fields, from its lowest bit up. *)

STRUCT_BYTES == 11
Layout == <<"version", "vendorId", "productId", "customFlow", "discovery",
            "discriminator", "passcode", "padding">>
WIDTH  == [version |-> 3, vendorId |-> 16, productId |-> 16, customFlow |-> 2, discovery |-> 8,
           discriminator |-> 12, passcode |-> 27, padding |-> 4]

Offset(k) == Total([j \in 1 .. k - 1 |-> WIDTH[Layout[j]]], 1 .. k - 1)

Bit(n, i) == (n \div 2 ^ i) % 2

ReadBits(bytes, offset, width) ==
    Total([i \in 0 .. width - 1 |-> 2 ^ i * Bit(bytes[((offset + i) \div 8) + 1], (offset + i) % 8)],
          0 .. width - 1)

\* The struct of a payload with its padding left zero, its bytes by writeBits.
Struct(payload) ==
    LET value(k) == IF Layout[k] = "padding" THEN 0 ELSE payload[Layout[k]]
        at(bit)  == CHOOSE k \in DOMAIN Layout :
                        bit \in Offset(k) .. Offset(k) + WIDTH[Layout[k]] - 1
    IN  [b \in 1 .. STRUCT_BYTES |->
            Total([i \in 0..7 |-> LET bit == 8 * (b - 1) + i
                                  IN  2 ^ i * Bit(value(at(bit)), bit - Offset(at(bit)))], 0..7)]

EncodePayload(payload) == EncodeBase38(Struct(payload) \o payload.extension)

Field(bytes, name) ==
    LET k == CHOOSE j \in DOMAIN Layout : Layout[j] = name
    IN  ReadBits(bytes, Offset(k), WIDTH[name])

PayloadReads(t) ==
    /\ t.scheme = "MT:"
    /\ t.body # <<>>
    /\ IsBase38(t.body)
    /\ Len(DecodeBase38(t.body)) >= STRUCT_BYTES
    /\ Field(DecodeBase38(t.body), "padding") = 0

DecodePayload(t) ==
    LET bytes == DecodeBase38(t.body) IN
    [version       |-> Field(bytes, "version"),
     vendorId      |-> Field(bytes, "vendorId"),
     productId     |-> Field(bytes, "productId"),
     customFlow    |-> Field(bytes, "customFlow"),
     discovery     |-> Field(bytes, "discovery"),
     discriminator |-> Field(bytes, "discriminator"),
     passcode      |-> Field(bytes, "passcode"),
     extension     |-> SubSeq(bytes, STRUCT_BYTES + 1, Len(bytes))]
-----------------------------------------------------------------------------
(* verhoeff.ts: the tables are the dihedral group of the pentagon and the     *)
(* powers of one permutation.                                                 *)

MULTIPLY ==
    [x \in Digit |-> [y \in Digit |->
        CASE x < 5 /\ y < 5   -> (x + y) % 5
          [] x < 5 /\ y >= 5  -> 5 + ((x + y) % 5)
          [] x >= 5 /\ y < 5  -> 5 + ((x - y) % 5)
          [] x >= 5 /\ y >= 5 -> (x - y) % 5]]

Once == <<1, 5, 7, 6, 2, 8, 3, 0, 9, 4>>

PERMUTE ==
    LET power[i \in 0..7] == [d \in Digit |-> IF i = 0 THEN d ELSE Once[power[i - 1][d] + 1]]
    IN  power

INVERSE == [v \in Digit |-> CHOOSE d \in Digit : MULTIPLY[v][d] = 0]

\* Mutant: the digits are permuted alike, wherever they stand.
AccumulateUnplaced(digits) ==
    FoldLeft(LAMBDA v, d : MULTIPLY[v][PERMUTE[1][d]], 0, Reverse(digits))

\* The digits folded from the last to the first, each permuted for its place.
Accumulate(digits) ==
    LET n == Len(digits)
        permuted == [i \in 1..n |-> PERMUTE[(i - 1) % 8][digits[n + 1 - i]]]
    IN  FoldLeft(LAMBDA v, d : MULTIPLY[v][d], 0, permuted)

VerhoeffCheckDigit(digits) == INVERSE[Accumulate(Append(digits, 0))]
IsVerhoeffValid(digits)    == Accumulate(digits) = 0
-----------------------------------------------------------------------------
(* manual-code.ts *)

SHORT_LENGTH == 11
LONG_LENGTH  == 21

TENS == <<1, 10, 100, 1000, 10000>>

\* The value in so many digits, the first the most.
Padded(value, width) == [i \in 1..width |-> (value \div TENS[width + 1 - i]) % 10]
Number(digits)       == Value(Reverse(digits), 10)

Group(short, passcode) == (short % 4) * 2 ^ 14 + (passcode % 2 ^ 14)

\* The code of a device whose payload names its vendor, as a payload always does,
\* or of one whose label names none (vendor FALSE).
DeriveManualCode(device, vendor) ==
    LET short == device.discriminator \div 2 ^ 8
        body  == <<(IF vendor THEN 4 ELSE 0) + (short \div 4)>>
                 \o Padded(Group(short, device.passcode), 5)
                 \o Padded(device.passcode \div 2 ^ 14, 4)
                 \o (IF vendor THEN Padded(device.vendorId, 5) \o Padded(device.productId, 5)
                     ELSE <<>>)
    IN  Append(body, VerhoeffCheckDigit(body))

HasVendor(digits) == digits[1] % 8 >= 4

ManualReads(digits) ==
    /\ Len(digits) \in {SHORT_LENGTH, LONG_LENGTH}
    /\ IsVerhoeffValid(digits)
    /\ digits[1] < 8
    /\ Len(digits) = IF HasVendor(digits) THEN LONG_LENGTH ELSE SHORT_LENGTH
    /\ Number(SubSeq(digits, 2, 6)) < 2 ^ 16
    /\ Number(SubSeq(digits, 7, 10)) < 2 ^ (WIDTH.passcode - 14)
    /\ HasVendor(digits) =>
          /\ Number(SubSeq(digits, 11, 15)) < 2 ^ WIDTH.vendorId
          /\ Number(SubSeq(digits, 16, 20)) < 2 ^ WIDTH.productId

ParseManualCode(digits) ==
    LET group == Number(SubSeq(digits, 2, 6)) IN
    [short    |-> (digits[1] % 4) * 4 + (group \div 2 ^ 14),
     passcode |-> (group % 2 ^ 14) + Number(SubSeq(digits, 7, 10)) * 2 ^ 14,
     vendor   |-> IF HasVendor(digits)
                  THEN <<Number(SubSeq(digits, 11, 15)), Number(SubSeq(digits, 16, 20))>>
                  ELSE <<>>]
-----------------------------------------------------------------------------
(* credential.ts *)

Trimmed(s) ==
    LET said == {i \in DOMAIN s : s[i] # Space}
    IN  IF said = {} THEN <<>> ELSE SubSeq(s, Min(said), Max(said))

WithoutSeparators(s) ==
    FoldLeft(LAMBDA kept, c : IF c \in Separator THEN kept ELSE Append(kept, c), <<>>, s)

HasScheme(t) == t.scheme # ""

\* A text of digits has no scheme; "mt:" in any case has, and only "MT:" decodes.
ReadCredential(t) ==
    LET trimmed == [t EXCEPT !.body = Trimmed(t.body)]
        digits  == WithoutSeparators(trimmed.body)
    IN  CASE HasScheme(t) ->
               IF PayloadReads(trimmed)
               THEN [answer     |-> "read", payload |-> trimmed.body,
                     manualCode |-> DeriveManualCode(DecodePayload(trimmed), TRUE)]
               ELSE Refused
          [] ~HasScheme(t) /\ digits # <<>> /\ (\A i \in DOMAIN digits : digits[i] \in Digit) ->
               IF ManualReads(digits)
               THEN [answer |-> "read", payload |-> <<>>, manualCode |-> digits]
               ELSE Refused
          [] OTHER -> Refused
-----------------------------------------------------------------------------
(* A label is printed, somebody types or scans it, perhaps not quite, and the *)
(* form reads it.                                                             *)

Printed(device, form) ==
    CASE form = "payload" -> [scheme |-> "MT:", body |-> EncodePayload(device)]
      [] form = "long"    -> [scheme |-> "", body |-> DeriveManualCode(device, TRUE)]
      [] form = "short"   -> [scheme |-> "", body |-> DeriveManualCode(device, FALSE)]

Init ==
    \E device \in Labels, form \in {"payload", "long", "short"} :
        /\ label = [device |-> device, form |-> form]
        /\ text = Printed(device, form)
        /\ slip = "none"
        /\ read = Unanswered

Slips(kind, body) ==
    /\ read = Unanswered /\ slip = "none"
    /\ body # text.body
    /\ text' = [text EXCEPT !.body = body]
    /\ slip' = kind
    /\ UNCHANGED <<label, read>>

\* One character is taken for another: one of its kind by a person who types digits.
Mistype ==
    \E i \in DOMAIN text.body :
    \E c \in IF label.form = "payload" THEN Characters ELSE Digit :
        Slips("mistyped", [text.body EXCEPT ![i] = c])

\* Two that stand side by side are exchanged.
Swap ==
    \E i \in 1 .. Len(text.body) - 1 :
        Slips("swapped", [text.body EXCEPT ![i] = text.body[i + 1], ![i + 1] = text.body[i]])

\* One is left out.
Drop ==
    \E i \in DOMAIN text.body : Slips("dropped", RemoveAt(text.body, i))

\* The digits are set apart, and the text comes with a space at its end.
Spell ==
    \E i \in DOMAIN text.body, c \in Separator :
        Slips("spelled", IF label.form = "payload" THEN Append(text.body, Space)
                         ELSE InsertAt(text.body, i, c))

\* The camera's text arrives in small letters.
Lower ==
    /\ read = Unanswered /\ slip = "none" /\ text.scheme = "MT:"
    /\ text' = [text EXCEPT !.scheme = "mt:"]
    /\ slip' = "lower"
    /\ UNCHANGED <<label, read>>

Read ==
    /\ read = Unanswered
    /\ read' = ReadCredential(text)
    /\ UNCHANGED <<label, text, slip>>

Next == Mistype \/ Swap \/ Drop \/ Spell \/ Lower \/ Read

Spec == Init /\ [][Next]_vars
-----------------------------------------------------------------------------
\* Whoever reads the label aright has the device: the passcode, the vendor and the
\* product, and of the discriminator as much as digits tell, in both spellings.
ReadAsPrinted ==
    read # Unanswered /\ slip \in {"none", "spelled"} =>
        /\ read.answer = "read"
        /\ LET code   == ParseManualCode(read.manualCode)
               device == label.device
           IN  /\ code.passcode = device.passcode
               /\ code.short = device.discriminator \div 2 ^ 8
               /\ code.vendor = IF label.form = "short" THEN <<>>
                                ELSE <<device.vendorId, device.productId>>
        /\ label.form = "payload" =>
               DecodePayload([scheme |-> "MT:", body |-> read.payload]) = label.device

\* A device has one payload text: what is read from any text encodes to that text, so
\* the same device cannot be filed twice under two of them, and no damage is rounded
\* off to a device.
OneTextPerDevice ==
    read # Unanswered /\ label.form = "payload" /\ read.answer = "read" =>
        EncodePayload(DecodePayload([scheme |-> "MT:", body |-> read.payload])) = read.payload

\* One digit wrong, or two exchanged, never opens another device: the code is refused.
SlipsAreNoticed ==
    read # Unanswered /\ label.form # "payload" /\ slip \in {"mistyped", "swapped", "dropped"} =>
        read = Refused
-----------------------------------------------------------------------------
\* The inductive invariant: of digits the text is the label's, or the label's with one slip,
\* and an answer is the answer to it.
IndInv ==
    LET printed == Printed(label.device, label.form).body IN
    /\ label.device \in Labels /\ label.form \in {"payload", "long", "short"}
    /\ DOMAIN text = {"scheme", "body"}
    /\ read \in {Unanswered, ReadCredential(text)}
    /\ label.form # "payload" =>
          /\ ~HasScheme(text)
          /\ slip = "none" => text.body = printed
          /\ slip = "mistyped" => \E i \in DOMAIN printed, c \in Digit :
                c # printed[i] /\ text.body = [printed EXCEPT ![i] = c]
          /\ slip = "swapped" => \E i \in 1 .. Len(printed) - 1 :
                /\ printed[i] # printed[i + 1]
                /\ text.body = [printed EXCEPT ![i] = printed[i + 1], ![i + 1] = printed[i]]
          /\ slip = "dropped" => \E i \in DOMAIN printed : text.body = RemoveAt(printed, i)
=============================================================================
