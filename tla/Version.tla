-------------------------------- MODULE Version --------------------------------
(***************************************************************************)
(* The order of firmware versions: src/autoupdater/src/version.c.  A       *)
(* version is a C string, a sequence of character codes without its final  *)
(* NUL.                                                                    *)
(***************************************************************************)
EXTENDS Integers, Sequences

isdigit(c) == c \in 48..57
isalpha(c) == c \in (65..90) \cup (97..122)

\* *(s + i - 1); 0 is the character that ends the string.
CharAt(s, i) == IF i <= Len(s) THEN s[i] ELSE 0

char_order(c) == CASE isdigit(c) -> 0
                   [] isalpha(c) -> c
                   [] c = 0      -> -1
                   [] c = 126    -> -2        \* tilde
                   [] OTHER      -> c + 256

\* Neither a digit nor the end.
NonDigit(c) == c # 0 /\ ~isdigit(c)

\* Mutant: leading zeroes are not ignored.
SkipNothing(s, i) == i

\* The first position from i on that holds no zero.
SkipZeroes(s, i) ==
  CHOOSE k \in i..(Len(s) + 1) :
    CharAt(s, k) # 48 /\ \A h \in i..(k - 1) : s[h] = 48

\* The first position from i on that holds no digit.
SkipDigits(s, i) ==
  CHOOSE k \in i..(Len(s) + 1) :
    ~isdigit(CharAt(s, k)) /\ \A h \in i..(k - 1) : isdigit(s[h])

\* newer_than, for strings that are not NULL.  newer[<<i, j>>] is what is left of
\* the loop when the pointers are at a[i] and b[j] and no number was begun.
newer_than(a, b) ==
  LET newer[p \in (1..(Len(a) + 1)) \X (1..(Len(b) + 1))] ==
        LET ac == char_order(CharAt(a, p[1]))
            bc == char_order(CharAt(b, p[2]))
            na == SkipZeroes(a, p[1])
            nb == SkipZeroes(b, p[2])
            ea == SkipDigits(a, na)
            eb == SkipDigits(b, nb)
            Differ(k) == a[na + k] # b[nb + k]
        IN  IF NonDigit(CharAt(a, p[1])) \/ NonDigit(CharAt(b, p[2]))
            THEN IF ac # bc THEN ac > bc ELSE newer[<<p[1] + 1, p[2] + 1>>]
            ELSE IF ea - na # eb - nb
            THEN ea - na > eb - nb
            ELSE IF \E k \in 0..(ea - na - 1) : Differ(k)
            THEN \E k \in 0..(ea - na - 1) :
                   /\ a[na + k] > b[nb + k]
                   /\ \A h \in 0..(k - 1) : ~Differ(h)
            ELSE (ea <= Len(a) \/ eb <= Len(b)) /\ newer[<<ea, eb>>]
  IN  newer[<<1, 1>>]

-------------------------------------------------------------------------------
(* What the order is                                                       *)

\* The value of the digits from i up to position e.
Number(s, i, e) ==
  LET value[k \in i..e] == IF k = i THEN 0 ELSE 10 * value[k - 1] + s[k - 1] - 48
  IN  value[e]

\* A version read from left to right: the order of each character that is no
\* digit; a zero and its value for each number.
Key(s) ==
  LET key[i \in 1..(Len(s) + 1)] ==
        LET e == SkipDigits(s, i)
        IN  CASE i > Len(s)      -> <<>>
              [] NonDigit(CharAt(s, i)) -> <<char_order(s[i])>> \o key[i + 1]
              [] OTHER           -> <<0, Number(s, i, e)>> \o key[e]
  IN  key[1]

\* Keys are compared from left to right, the shorter one filled up with zeroes.
KeyAt(k, i) == IF i \in DOMAIN k THEN k[i] ELSE 0

Greater(k, l) ==
  \E i \in 1..(Len(k) + Len(l)) :
    /\ KeyAt(k, i) > KeyAt(l, i)
    /\ \A h \in 1..(i - 1) : KeyAt(k, h) = KeyAt(l, h)
===============================================================================
