--------------------------------- MODULE Rsa ---------------------------------
(***************************************************************************)
(* How the worker wraps its AES key: the RSA half of create_secret         *)
(* (smile-case1/main.c) with the functions of smile-case1/rsa.h.  Two      *)
(* probable primes are searched from a random start, an exponent is        *)
(* searched and inverted, the key is encoded in blocks of `bytes`          *)
(* characters and decoded again.  rand() may return anything, so each of   *)
(* its calls is a step; the functions without it are operators, with C's   *)
(* remainder, shift and signed char.  Characters have CharBits bits and a  *)
(* sign; the code fixes CharBits = 7.                                      *)
(***************************************************************************)
EXTENDS Integers, Sequences, FiniteSetsExt

CONSTANTS SINGLE_MAX, EXPONENT_MAX, ACCURACY, \* #defines of rsa.h
          CharBits,
          MsgLen,    \* len: 16
          Messages,  \* the keys that may be wrapped, as signed characters
          Beyond     \* the characters that may follow the key in memory

Chars == -(2^CharBits)..(2^CharBits - 1)
Text  == 0..(2^CharBits - 1)

ASSUME RsaAssumption ==
    /\ SINGLE_MAX \in Nat /\ SINGLE_MAX > 3
    /\ EXPONENT_MAX \in Nat /\ EXPONENT_MAX > 3
    /\ ACCURACY \in Nat /\ CharBits \in Nat \ {0} /\ MsgLen \in Nat \ {0}
    /\ Messages \subseteq [0..(MsgLen - 1) -> Chars]
    /\ Beyond \subseteq Chars /\ Beyond # {}

\* C's a % b: the sign of a.
Rem(a, b) == IF a >= 0 THEN a % b ELSE -((-a) % b)

ModPowFrom[res \in Int, a \in Int, b \in Nat, c \in Nat] ==
    IF b = 0 THEN res
    ELSE ModPowFrom[IF b % 2 = 1 THEN Rem(res * a, c) ELSE res, Rem(a * a, c), b \div 2, c]
modpow(a, b, c) == ModPowFrom[1, a, b, c]

\* Quadratic reciprocity: whether swapping a and n changes the sign.
Flip(a, rsaN) == rsaN % 4 # 1 /\ a % 4 # 1

Twos[a \in Nat] == IF a % 2 = 0 THEN 1 + Twos[a \div 2] ELSE 0

JacobiFrom[a0 \in Nat, n0 \in Nat, mult \in {-1, 1}] ==
    LET a    == a0 % n0
        twos == Twos[a]
        odd  == a \div 2^twos
        sign == IF twos % 2 = 1 /\ n0 % 8 \notin {1, 7} THEN -mult ELSE mult
        Value(x, s) == IF x = 1 THEN s ELSE 0
    IN  IF a0 <= 1 \/ a0 = n0 THEN Value(a0, mult)
        ELSE IF a <= 1       THEN Value(a, mult)
        ELSE IF odd <= 1     THEN Value(odd, sign)
        ELSE JacobiFrom[n0, odd, IF Flip(odd, n0) THEN -sign ELSE sign]
jacobi(a, m) == JacobiFrom[a, m, 1]

solovayPrime(a, rsaN) ==
    LET x == IF jacobi(a, rsaN) = -1 THEN rsaN - 1 ELSE jacobi(a, rsaN)
    IN  x # 0 /\ modpow(a, (rsaN - 1) \div 2, rsaN) = x

\* rand() % (n - 2) + 2
Bases(rsaN) == 2..(rsaN - 1)

GcdFrom[a \in Nat, b \in Nat] == IF b = 0 THEN a ELSE GcdFrom[b, a % b]
gcd(a, b) == GcdFrom[a, b]

InverseFrom[a \in Nat, b \in Nat, x \in Int, x0 \in Int] ==
    IF b = 0 THEN x0 ELSE InverseFrom[b, a % b, x0 - (a \div b) * x, x]

\* A fault: a negative coefficient is returned.
InverseSigned(rsaN, modulus) == InverseFrom[rsaN, modulus, 0, 1]

\* x0 of the extended Euclid; y and y0 are never used.
inverse(rsaN, modulus) ==
    LET x0 == InverseFrom[rsaN, modulus, 0, 1]
    IN  IF x0 < 0 THEN x0 + modulus ELSE x0

\* n >> 21, n >> 14
Bytes(rsaN) ==
    IF rsaN \div 2^(3 * CharBits) # 0 THEN 3
    ELSE IF rsaN \div 2^(2 * CharBits) # 0 THEN 2 ELSE 1

\* x += message[i + j] * (1 << (7 * j)); past its end, what is there.
Block(msg, after, from, bytes) ==
    LET At(k) == IF k < MsgLen THEN msg[k] ELSE after
    IN  MapThenSumSet(LAMBDA j : At(from + j) * 2^(CharBits * j), 0..(bytes - 1))

\* Entry b is stored for every start b * bytes < len.
encodeMessage(bytes, msg, after, e, rsaN) ==
    [b \in 0..((MsgLen - 1) \div bytes) |-> modpow(Block(msg, after, b * bytes, bytes), e, rsaN)]

\* (x >> (7 * j)) % 128
decodeMessage(len, bytes, cryptogram, d, rsaN) ==
    [k \in 0..(len * bytes - 1) |->
        Rem(modpow(cryptogram[k \div bytes], d, rsaN) \div 2^(CharBits * (k % bytes)), 2^CharBits)]

-----------------------------------------------------------------------------
VARIABLES
    rsaPc,
    prime, k,   \* the locals of randPrime and probablePrime
    primes,     \* <<>>, <<p>> or <<p, q>>
    e, d,
    message, encoded, decoded

rsaVars == <<rsaPc, prime, k, primes, e, d, message, encoded, decoded>>
key  == <<primes, e, d>>
text == <<message, encoded, decoded>>

p     == primes[1]
q     == primes[2]
rsaN     == p * q
phi   == (p - 1) * (q - 1)
bytes == Bytes(rsaN)

Nothing == << >>

RsaInit ==
    /\ rsaPc = "draw"
    /\ prime = 1 /\ k = 0
    /\ primes = << >>
    /\ e = 0 /\ d = 0
    /\ message = Nothing /\ encoded = Nothing /\ decoded = Nothing

\* randPrime: prime = rand() % n, made odd.
Draw ==
    /\ rsaPc = "draw" /\ rsaPc' = "test"
    /\ \E r \in 0..(SINGLE_MAX - 1) : prime' = r + 1 - (r % 2)
    /\ k' = ACCURACY
    /\ UNCHANGED <<key, text>>

\* prime = (prime + 2) % n, for n rounded up to an even number.
NextCandidate ==
    /\ prime' = (prime + 2) % (SINGLE_MAX + (SINGLE_MAX % 2))
    /\ k' = ACCURACY
    /\ UNCHANGED <<rsaPc, key, text>>

\* probablePrime: 1 is no prime (an even candidate never gets here).
RejectOne ==
    /\ rsaPc = "test" /\ prime = 1
    /\ NextCandidate

\* One round of the Solovay-Strassen test, with a random base.
RejectComposite ==
    /\ rsaPc = "test" /\ prime # 1 /\ k > 0
    /\ \E a \in Bases(prime) : ~solovayPrime(a, prime)
    /\ NextCandidate

PassRound ==
    /\ rsaPc = "test" /\ prime # 1 /\ k > 0
    /\ \E a \in Bases(prime) : solovayPrime(a, prime)
    /\ k' = k - 1
    /\ UNCHANGED <<rsaPc, prime, key, text>>

Accept ==
    /\ rsaPc = "test" /\ prime # 1 /\ k = 0
    /\ primes' = Append(primes, prime)
    /\ rsaPc' = IF primes = << >> THEN "draw" ELSE "modulus"
    /\ prime' = 1
    /\ UNCHANGED <<k, e, d, text>>

\* n < 128: try again.
TooSmall ==
    /\ rsaPc = "modulus" /\ rsaN < 2^CharBits
    /\ rsaPc' = "draw" /\ primes' = << >>
    /\ UNCHANGED <<prime, k, e, d, text>>

\* randExponent: e = rand() % n
DrawExponent ==
    /\ rsaPc = "modulus" /\ ~(rsaN < 2^CharBits)
    /\ rsaPc' = "exponent"
    /\ e' \in 0..(EXPONENT_MAX - 1)
    /\ UNCHANGED <<prime, k, primes, d, text>>

\* e = (e + 1) % n; if(e <= 2) e = 3
NextExponent ==
    /\ rsaPc = "exponent" /\ gcd(e, phi) # 1
    /\ e' = LET f == (e + 1) % EXPONENT_MAX IN IF f <= 2 THEN 3 ELSE f
    /\ UNCHANGED <<rsaPc, prime, k, primes, d, text>>

Invert ==
    /\ rsaPc = "exponent" /\ gcd(e, phi) = 1
    /\ rsaPc' = "encode"
    /\ d' = inverse(e, phi)
    /\ UNCHANGED <<prime, k, primes, e, text>>

Encode ==
    /\ rsaPc = "encode" /\ rsaPc' = "decode"
    /\ message' \in Messages
    /\ \E after \in Beyond : encoded' = encodeMessage(bytes, message', after, e, rsaN)
    /\ UNCHANGED <<prime, k, key, decoded>>

\* decodeMessage(len/bytes, ...)
Decode ==
    /\ rsaPc = "decode" /\ rsaPc' = "done"
    /\ decoded' = decodeMessage(MsgLen \div bytes, bytes, encoded, d, rsaN)
    /\ UNCHANGED <<prime, k, key, message, encoded>>

RsaNext ==
    \/ Draw \/ RejectOne \/ RejectComposite \/ PassRound \/ Accept \/ TooSmall
    \/ DrawExponent \/ NextExponent \/ Invert \/ Encode \/ Decode

RsaSpec     == RsaInit /\ [][RsaNext]_rsaVars
\* The worker keeps running.
RsaFairSpec == RsaSpec /\ WF_rsaVars(RsaNext)

-----------------------------------------------------------------------------
\* Candidates are odd and below SINGLE_MAX (rounded up to even), so the tests
\* for 2 and for even numbers in probablePrime are never needed.
RsaTypeOK ==
    /\ rsaPc \in {"draw", "test", "modulus", "exponent", "encode", "decode", "done"}
    /\ prime \in 1..SINGLE_MAX /\ prime % 2 = 1
    /\ k \in 0..ACCURACY
    /\ primes \in Seq(3..SINGLE_MAX) /\ Len(primes) <= 2
    /\ e \in 0..(EXPONENT_MAX - 1)
    /\ d \in Int

IsPrime(m) == m > 1 /\ \A x \in 2..(m - 1) : m % x # 0

\* The Solovay-Strassen test is the one of the literature, for every candidate
\* that comes up: no base refutes a prime, and for a composite fewer than half
\* of the bases pass, so that every round at least halves the error.
SolovayExact ==
    rsaPc = "test" /\ prime > 1 =>
        LET passing == {a \in Bases(prime) : solovayPrime(a, prime)}
        IN  IF IsPrime(prime) THEN passing = Bases(prime)
            ELSE 2 * (Cardinality(passing) + 1) <= prime - 1

\* The private exponent inverts the public one modulo phi and is in range,
\* also when e exceeds phi.
KeyInverts ==
    rsaPc \in {"encode", "decode", "done"} => d \in 1..(phi - 1) /\ (e * d) % phi = 1

\* If p and q are two different primes and the key is text, the blocks that
\* fit the key come back unchanged, whatever the modulus and the block size.
RoundTrip ==
    (rsaPc = "done" /\ IsPrime(p) /\ IsPrime(q) /\ p # q
        /\ \A j \in DOMAIN message : message[j] \in Text) =>
            \A j \in DOMAIN decoded : decoded[j] = message[j]

\* The searches for a prime and for an exponent end, whatever rand() returns:
\* a prime that is reached is never passed over.
SearchesEnd ==
    /\ (rsaPc = "test") ~> (rsaPc # "test")
    /\ (rsaPc = "exponent") ~> (rsaPc = "encode")

\* rsa.h:171: "The resulting array will be of size len/bytes".
EncodedFits ==
    rsaPc = "decode" => DOMAIN encoded = 0..(MsgLen \div bytes - 1)

=============================================================================
