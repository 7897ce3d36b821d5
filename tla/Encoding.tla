---- MODULE Encoding ----
\* The pure encoders of the library, each checked against a reference
\* definition or its own assertions over bounded inputs:
\*   - to_5bits (account_info.cpp), which regroups the 20-byte address
\*     fingerprint into the 5-bit digits bech32 encodes;
\*   - common::UrlPath (requests/util.h), which appends query arguments to a
\*     REST path, skipping empty optionals;
\*   - common::base64_encode and base64_decode (encoding/base64.cpp), thin
\*     wrappers around OpenSSL's EVP_EncodeBlock and EVP_DecodeUpdate that
\*     size the output buffer from a predicted length and trust assertions
\*     for the rest.
\* A URL is abstracted to the sequence of <<separator, argument>> pairs
\* appended after the base path; names and values are left out, as the
\* properties are about the separators and which arguments appear.
\* A character of base64 text is its 6-bit value (0..63) when it is in the
\* alphabet, and a model value otherwise: Pad for '=', Ws for whitespace
\* (which OpenSSL skips) and Bad for anything else. The OpenSSL routines are
\* modelled by what OpenSSL 3 does on inputs shorter than its 64 character
\* line, as libcrypto 3 behaves on every input of the bounds checked.
EXTENDS Naturals, Sequences
LOCAL INSTANCE SequencesExt

CONSTANTS
    ByteValues,      \* byte values of fingerprints and base64-encoded strings
    FingerprintLen,  \* fingerprint length in bytes (a multiple of 5)
    MaxArgs,         \* most AddArg calls on one UrlPath
    MaxEncodedBytes, \* longest string base64-encoded
    DecodeChars,     \* characters of base64 texts decoded
    MaxDecodeLen,    \* longest text decoded (a multiple of 4)
    Pad, Ws, Bad,    \* '=', whitespace, and a character not in the alphabet
    Nul              \* the NUL character

VARIABLES
    last             \* the most recent call: its input and output

vars == <<last>>

\* to_5bits' constants.
FROM_BITS == 8
TO_BITS == 5
MAX_VALUE == 2^TO_BITS - 1

\* A mutant: the accumulator mask one bit too narrow.
MAX_ACC_NARROW == 2^(FROM_BITS + TO_BITS - 2) - 1

MAX_ACC == 2^(FROM_BITS + TO_BITS - 1) - 1

\* The inner while loop: while at least TO_BITS bits are pending, emit the
\* top TO_BITS of them, (acc >> bits) & MAX_VALUE.
RECURSIVE Drain(_, _, _)
Drain(acc, bits, result) ==
    IF bits >= TO_BITS
    THEN Drain(acc, bits - TO_BITS,
               Append(result, (acc \div 2^(bits - TO_BITS)) % (MAX_VALUE + 1)))
    ELSE [result |-> result, bits |-> bits]

\* The outer loop over the bytes: acc = ((acc << 8) | by) & MAX_ACC. The low
\* 8 bits of acc << 8 are zero, so | is +, and MAX_ACC + 1 is a power of two,
\* so & MAX_ACC is a remainder.
RECURSIVE FiveBitsLoop(_, _, _, _)
FiveBitsLoop(bytes, acc, bits, result) ==
    IF bytes = <<>>
    THEN result
    ELSE LET acc2 == (acc * 2^FROM_BITS + Head(bytes)) % (MAX_ACC + 1)
             d == Drain(acc2, bits + FROM_BITS, result)
         IN FiveBitsLoop(Tail(bytes), acc2, d.bits, d.result)

to_5bits(bytes) == FiveBitsLoop(bytes, 0, 0, <<>>)

\* common::UrlPath's constructor: the base path, and first = true.
NewUrlPath == [text |-> <<>>, first |-> TRUE]

\* A mutant: the optional branch forgets to clear first.
AddArgKeepsFirst(url, arg) ==
    LET prefix == IF url.first THEN "?" ELSE "&"
    IN IF ~arg.optional
       THEN [text |-> Append(url.text, <<prefix, arg.name>>), first |-> FALSE]
       ELSE IF arg.present
            THEN [text |-> Append(url.text, <<prefix, arg.name>>), first |-> url.first]
            ELSE url

\* UrlPath::AddArg: the prefix is '?' for the first argument written and '&'
\* after it; an empty optional writes nothing and leaves first as it was.
AddArg(url, arg) ==
    LET prefix == IF url.first THEN "?" ELSE "&"
    IN IF arg.optional /\ ~arg.present
       THEN url
       ELSE [text |-> Append(url.text, <<prefix, arg.name>>), first |-> FALSE]

\* UrlPath(base).AddArg(...)...AddArg(...).Get()
UrlPathGet(args) == FoldLeft(AddArg, NewUrlPath, args).text

\* An argument spec as the endpoint methods pass it: a plain value, or a
\* std::optional that holds a value or not. The name is its position.
ArgKinds == {"plain", "present", "absent"}
Arg(i, kind) == [name |-> i, optional |-> kind # "plain", present |-> kind # "absent"]

\* NodeGrpcGatewayRestClient's UrlPathWithPagination: the base path and the
\* five optional fields of Pagination (key, offset, limit, count_total,
\* reverse), in that order.
UrlPathWithPagination(pagination) == FoldLeft(AddArg, NewUrlPath, pagination)

\* Bit i (from 1, most significant first) of the byte string.
Bit(bytes, i) == (bytes[(i - 1) \div 8 + 1] \div 2^(7 - ((i - 1) % 8))) % 2

\* The value of bits [from, from + w) of a byte string, zero past its end.
BitsValue(bytes, from, w) ==
    LET bit(i) == IF i <= 8 * Len(bytes) THEN Bit(bytes, i) ELSE 0
        RECURSIVE Acc(_)
        Acc(k) == IF k = 0 THEN 0 ELSE 2 * Acc(k - 1) + bit(from + k - 1)
    IN Acc(w)

\* One pass of EVP_EncodeBlock's loop on a group of 3 bytes, or of the 1
\* or 2 left at the end: 4 characters, those standing only for missing
\* bytes being '='.
EncodeGroup(g) ==
    [i \in 1..4 |-> IF 6 * (i - 1) >= 8 * Len(g) THEN Pad ELSE BitsValue(g, 6 * (i - 1) + 1, 6)]

\* EVP_EncodeBlock: the loop takes 3 bytes at a time while any are left and
\* appends a group for each pass; its return value is the length written.
RECURSIVE EVP_EncodeBlock(_)
EVP_EncodeBlock(bytes) ==
    IF bytes = <<>> THEN <<>>
    ELSE IF Len(bytes) <= 3 THEN EncodeGroup(bytes)
    ELSE EncodeGroup(SubSeq(bytes, 1, 3)) \o EVP_EncodeBlock(SubSeq(bytes, 4, Len(bytes)))

\* Mutant: the predicted length rounds the byte count down to whole groups.
PredictedEncodedLenFloor(n) == 4 * ((n + 1) \div 3)

\* base64_encode's predicted_len.
PredictedEncodedLen(n) == 4 * ((n + 2) \div 3)

\* base64_encode: output is sized predicted_len + 1 for EVP_EncodeBlock's
\* NUL, the assertion compares the prediction with what was written, and
\* the NUL is cut off.
base64_encode(bytes) ==
    LET predicted == PredictedEncodedLen(Len(bytes))
        written == EVP_EncodeBlock(bytes)
    IN [out |-> SubSeq(written \o [i \in 1..predicted + 1 |-> Nul], 1, predicted),
        asserted |-> predicted = Len(written)]

\* One character of EVP_DecodeUpdate's loop: an invalid character is an
\* error, '=' counts towards eof and is kept (as 0 bits), an alphabet
\* character after '=' is an error, more than two '=' are an error, and
\* whitespace is skipped.
DecodeStep(st, c) ==
    IF st.err THEN st
    ELSE CASE c = Bad -> [st EXCEPT !.err = TRUE]
           [] c = Pad -> IF st.eof + 1 > 2 THEN [st EXCEPT !.err = TRUE]
                           ELSE [st EXCEPT !.eof = @ + 1, !.kept = Append(@, 0)]
           [] c = Ws  -> st
           [] OTHER     -> IF st.eof > 0 THEN [st EXCEPT !.err = TRUE]
                           ELSE [st EXCEPT !.kept = Append(@, c)]

\* The 3 bytes of each group of 4 kept characters, '=' decoded as 0 bits.
DecodeGroups(kept) ==
    LET v(g) == kept[4*g - 3] * 2^18 + kept[4*g - 2] * 2^12 + kept[4*g - 1] * 2^6 + kept[4*g]
    IN [i \in 1..3 * (Len(kept) \div 4) |->
          (v((i - 1) \div 3 + 1) \div 2^(8 * (2 - ((i - 1) % 3)))) % 256]

\* EVP_DecodeUpdate on one call: the kept characters are decoded at the
\* end only when they form whole groups (else they stay buffered for the
\* next line, and nothing is output); the output buffer receives 3 bytes
\* per group, of which the last eof are padding and not counted in len.
EVP_DecodeUpdate(view) ==
    LET st == FoldLeft(DecodeStep, [err |-> FALSE, eof |-> 0, kept |-> <<>>], view)
        whole == Len(st.kept) % 4 = 0
        bytes == IF whole THEN DecodeGroups(st.kept) ELSE <<>>
    IN [ret |-> IF st.err THEN -1 ELSE 1,
        written |-> bytes,
        len |-> IF whole THEN Len(bytes) - st.eof ELSE 0,
        buffered |-> IF whole THEN 0 ELSE Len(st.kept)]

\* Mutant: the buffer sized for the payload only, without the padding bytes
\* EVP_DecodeUpdate writes.
PredictedDecodedLenMinusPad(view) ==
    (3 * Len(view)) \div 4 - Len(SelectSeq(view, LAMBDA c : c = Pad))

\* base64_decode's predicted_len.
PredictedDecodedLen(view) == (3 * Len(view)) \div 4

\* Mutant: the result keeps the whole predicted buffer.
DecodeResultPredicted(view) ==
    LET r == EVP_DecodeUpdate(view)
    IN [threw |-> r.ret < 0,
        out |-> SubSeq(r.written \o [i \in 1..PredictedDecodedLen(view) |-> 0],
                       1, PredictedDecodedLen(view))]

\* The value base64_decode returns: it throws when EVP_DecodeUpdate
\* returns a negative value, else output.resize(len).
DecodeResult(view) ==
    LET r == EVP_DecodeUpdate(view)
    IN [threw |-> r.ret < 0, out |-> SubSeq(r.written, 1, r.len)]

\* base64_decode: the prediction, EVP_DecodeUpdate into a buffer of that
\* size, and the result.
base64_decode(view) ==
    LET r == EVP_DecodeUpdate(view)
        predicted == PredictedDecodedLen(view)
    IN [predicted |-> predicted, written |-> Len(r.written), len |-> r.len,
        result |-> DecodeResult(view)]

Init == last = [call |-> "none", input |-> <<>>, out |-> <<>>]

\* LocalAccountInfo::FromMnemonic regroups the fingerprint for bech32.
CallToFiveBits ==
    /\ last.call = "none"
    /\ \E bytes \in [1..FingerprintLen -> ByteValues] :
         last' = [call |-> "to_5bits", input |-> bytes, out |-> to_5bits(bytes)]

\* An endpoint method builds its path with a chain of AddArg calls.
CallUrlPath ==
    /\ last.call = "none"
    /\ \E n \in 0..MaxArgs : \E kinds \in [1..n -> ArgKinds] :
         LET args == [i \in 1..n |-> Arg(i, kinds[i])]
         IN last' = [call |-> "url", input |-> args, out |-> UrlPathGet(args)]

\* A paginated gateway query: UrlPathWithPagination, then GetAllValidators'
\* optional status when the endpoint has one.
CallPaginatedUrlPath ==
    /\ last.call = "none"
    /\ \E present \in [1..5 -> BOOLEAN] :
       \E extra \in {<<>>, <<"present">>, <<"absent">>} :
         LET pagination == [i \in 1..5 |-> Arg(i, IF present[i] THEN "present" ELSE "absent")]
             status == [i \in 1..Len(extra) |-> Arg(6, extra[i])]
         IN last' = [call |-> "url", input |-> pagination \o status,
                     out |-> FoldLeft(AddArg, UrlPathWithPagination(pagination), status).text]

\* NodeGrpcGatewayRestClient::BroadcastTransaction and Simulate encode the
\* transaction bytes into the request body.
CallEncode ==
    /\ last.call = "none"
    /\ \E n \in 0..MaxEncodedBytes : \E bytes \in [1..n -> ByteValues] :
         last' = [call |-> "encode", input |-> bytes, out |-> base64_encode(bytes)]

\* A caller of base64_decode (declared in base64.h, with no caller in the
\* library yet) decodes a text; the assertion at line 52 requires whole
\* groups.
CallDecode ==
    /\ last.call = "none"
    /\ \E n \in {k \in 0..MaxDecodeLen : k % 4 = 0} : \E view \in [1..n -> DecodeChars] :
         last' = [call |-> "decode", input |-> view, out |-> base64_decode(view)]

\* The caller consumes the result and makes its next call.
Return ==
    /\ last.call # "none"
    /\ last' = [call |-> "none", input |-> <<>>, out |-> <<>>]

Next ==
    \/ CallToFiveBits
    \/ CallUrlPath
    \/ CallPaginatedUrlPath
    \/ CallEncode
    \/ CallDecode
    \/ Return

Spec == Init /\ [][Next]_vars

\* Reference definitions.

\* The byte string's bits cut into consecutive 5-bit digits, most
\* significant first; trailing bits that do not fill a digit are dropped.
FiveBitDigits(bytes) ==
    [k \in 1..((8 * Len(bytes)) \div 5) |->
       LET b(j) == Bit(bytes, 5 * (k - 1) + j)
       IN 16 * b(1) + 8 * b(2) + 4 * b(3) + 2 * b(4) + b(5)]

\* The query a path with these arguments should carry: the arguments that
\* hold a value, in call order, the first after '?' and the others after '&'.
Query(args) ==
    LET written == SelectSeq(args, LAMBDA a : ~a.optional \/ a.present)
    IN [i \in 1..Len(written) |-> <<IF i = 1 THEN "?" ELSE "&", written[i].name>>]

\* Properties.

\* to_5bits returns exactly the fingerprint's bits regrouped into 5-bit
\* digits: the 12-bit accumulator loses no bit that a later digit needs.
FiveBitsIsRegrouping ==
    last.call = "to_5bits" => last.out = FiveBitDigits(last.input)

\* UrlPath writes every argument that holds a value, in order, and exactly
\* the first one written gets '?', whichever optionals before it were empty.
UrlQueryWellFormed ==
    last.call = "url" => last.out = Query(last.input)

\* base64_encode's assertion holds: predicted_len is exactly the number of
\* characters EVP_EncodeBlock writes, so the string it returns is the
\* whole encoding with only the NUL cut off.
EncodeLengthPredicted ==
    last.call = "encode" => last.out.asserted

\* Decoding what base64_encode returned gives back the bytes: base64_decode
\* is the inverse of base64_encode on every string the library encodes.
RoundTrip ==
    last.call = "encode" => DecodeResult(last.out.out) = [threw |-> FALSE, out |-> last.input]

\* EVP_DecodeUpdate never writes past the buffer base64_decode sized with
\* predicted_len, for any text of whole groups, valid or not.
DecodeWithinBuffer ==
    last.call = "decode" => last.out.written <= last.out.predicted
====
