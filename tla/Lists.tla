--------------------------------- MODULE Lists ---------------------------------
(***************************************************************************)
(* The lists that are changed in place: the mirrors, of which main() sets  *)
(* those that failed to NULL (src/autoupdater/src/autoupdater.c), the      *)
(* public keys, of which load_settings keeps the valid ones                *)
(* (src/autoupdater/src/settings.c, hexutil.c), and the mirrors of the     *)
(* proxy, which it shuffles (src/autoupdater-proxy/src/util.h).            *)
(***************************************************************************)
EXTENDS Integers, Sequences

CONSTANTS
  Removed,         \* an entry that is NULL
  KeyLength,       \* bytes of a public key
  Loads(_),        \* does ecc_25519_load_packed_legacy accept the bytes of a key?
  IsValidKey(_)    \* does ecdsa_is_valid_pubkey?

ASSUME ListsAssumption == KeyLength \in Nat \ {0}

\* Mutant: NULL entries are skipped at the start only.
WalkFromFirst(mirrors, i) ==
  i + CHOOSE k \in DOMAIN mirrors :
        mirrors[k] # Removed /\ \A h \in 1..(k - 1) : mirrors[h] = Removed

\* The entry the loop in main() stops at: forward by i entries that are not NULL.
\* walk[<<k, n>>] is what is left of it at entry k, when n of them are to be passed.
Walk(mirrors, i) ==
  LET Stops(k, n) == k > Len(mirrors) \/ (mirrors[k] # Removed /\ n = 0)
      walk[p \in (1..(Len(mirrors) + 1)) \X (0..i)] ==
        IF Stops(p[1], p[2]) THEN p[1]
        ELSE IF mirrors[p[1]] = Removed THEN walk[<<p[1] + 1, p[2]>>]
        ELSE walk[<<p[1] + 1, p[2] - 1>>]
  IN  walk[<<1, i>>]

\* The value of each hexadecimal digit, given by its character code.
HexDigits == [c \in (48..57) \cup (65..70) \cup (97..102) |->
               IF c < 58 THEN c - 48 ELSE (c - 55) % 32]

\* parsehex: does the text have 2 * len digits and nothing else, and which bytes
\* are they?
parsehex(input, len) ==
  IF Len(input) = 2 * len /\ \A i \in DOMAIN input : input[i] \in DOMAIN HexDigits
  THEN [ok |-> TRUE, output |-> [i \in 1..len |->
          16 * HexDigits[input[2 * i - 1]] + HexDigits[input[2 * i]]]]
  ELSE [ok |-> FALSE, output |-> <<>>]

\* Mutant: the place of an ignored key is not used again.
SlotOfIndex(i, ignored) == i

\* The index &settings->pubkeys[i - ignored_keys], from one.
Slot(i, ignored) == i - ignored

\* The loop over the keys in load_settings: a key is unpacked into its slot
\* before it is known to be valid.  The slots behind n_pubkeys are not used.
PublicKeys(keys) ==
  LET load[i \in 0..Len(keys)] ==
        IF i = 0 THEN [slots |-> [k \in DOMAIN keys |-> <<>>], ignored |-> 0]
        ELSE LET r == load[i - 1]
                 hex == parsehex(keys[i], KeyLength)
                 k == hex.output
             IN  [slots   |-> IF ~hex.ok THEN r.slots
                              ELSE [r.slots EXCEPT ![Slot(i, r.ignored)] = k],
                  ignored |-> IF hex.ok /\ Loads(k) /\ IsValidKey(k)
                              THEN r.ignored ELSE r.ignored + 1]
      loaded == load[Len(keys)]
  IN  SubSeq(loaded.slots, 1, Len(keys) - loaded.ignored)

\* Mutant: the entry itself is not among those it may be swapped with.
DrawnBehind(i, r, len, max) == i + r \div (max \div (len - i) + 1)

\* The index from one that entry i is swapped with: r is what rand() returned.
Drawn(i, r, len, max) == i + r \div (max \div (len - i + 1) + 1)

\* draws[i] is what rand() returns for entry i; max is RAND_MAX.
ARRAY_SHUFFLE(arr, draws, max) ==
  LET Swap(a, i, j) == [a EXCEPT ![i] = a[j], ![j] = a[i]]
      shuffle[i \in 0..Len(draws)] ==
        IF i = 0 THEN arr
        ELSE Swap(shuffle[i - 1], i, Drawn(i, draws[i], Len(arr), max))
  IN  shuffle[Len(draws)]

\* What the lists stand for.
Left(mirrors) == {k \in DOMAIN mirrors : mirrors[k] # Removed}

\* A key in hexadecimal digits, in lower or upper case.
IsKeyText(k, bytes) ==
  LET Digit16(n) == IF n < 10 THEN {48 + n} ELSE {55 + n, 87 + n}
  IN  /\ Len(bytes) = KeyLength /\ Len(k) = 2 * KeyLength
      /\ \A i \in DOMAIN bytes : /\ k[2 * i - 1] \in Digit16(bytes[i] \div 16)
                                /\ k[2 * i] \in Digit16(bytes[i] % 16)
===============================================================================
