---------------------------- MODULE TextProofs -----------------------------
(***************************************************************************)
(* Theorems about texts.                                                   *)
(*                                                                         *)
(* The text that to_string() gives an instant: every digit of a number of  *)
(* two or three is written; the fields stand at fixed places of the text,  *)
(* so that it reads back as the second of the day and the milliseconds;    *)
(* and days wrap the same in seconds as in milliseconds.                   *)
(*                                                                         *)
(* What split(), join() and trim() make of a string: the tokens so far,    *)
(* joined, a delimiter and what is left are the input, and a token off the *)
(* front leaves one delimiter less.                                        *)
(***************************************************************************)
EXTENDS Timestamp, Split, DataLemmas, FunctionTheorems

-----------------------------------------------------------------------------
(* Digits and fields                                                       *)

(* The char of a digit does not wrap.                                      *)
LEMMA CharOfDigit == \A d \in 0..9 : Char(d) = 48 + d
  BY DEF Char

(* The digits of a number of two, and of one of three.                     *)
IsTwo(v, a, b) == a \in 0..9 /\ b \in 0..9 /\ v = 10 * a + b
IsThree(v, a, b, c) == a \in 0..9 /\ b \in 0..9 /\ c \in 0..9 /\ v = 100 * a + 10 * b + c

(* The tens and units of a number of two digits.                           *)
LEMMA PartsOfTwo ==
    ASSUME NEW a, NEW b, NEW v, IsTwo(v, a, b)
    PROVE  v \in 0..99 /\ (v < 10 <=> a = 0) /\ v \div 10 = a /\ v % 10 = b
  BY DEF IsTwo

(* What is written of a number of two digits, the first not zero.          *)
LEMMA TwoDigits ==
    ASSUME NEW a, NEW b, NEW v, IsTwo(v, a, b), a # 0
    PROVE  Digits(v) = <<48 + a, 48 + b>>
  <1> a \in 0..9 /\ b \in 0..9 /\ v = 10 * a + b
    BY DEF IsTwo
  <1>1. v \div 10 = a /\ v % 10 = b /\ ~(v < 10) /\ v < 100
    BY PartsOfTwo
  <1>2. Digits(v) = <<Char(a), Char(b)>>
    BY <1>1, Zenon DEF Digits
  <1>3. Char(a) = 48 + a /\ Char(b) = 48 + b
    BY CharOfDigit
  <1> QED BY <1>2, <1>3

(* What is written of a number of three digits, the first not zero.        *)
LEMMA ThreeDigits ==
    ASSUME NEW a, NEW b, NEW c, NEW v, IsThree(v, a, b, c), a # 0
    PROVE  Digits(v) = <<48 + a, 48 + b, 48 + c>>
  <1> a \in 0..9 /\ b \in 0..9 /\ c \in 0..9 /\ v = 100 * a + 10 * b + c
    BY DEF IsThree
  <1>1. v \div 100 = a /\ (v \div 10) % 10 = b /\ v % 10 = c /\ ~(v < 10) /\ ~(v < 100)
    <2>1. v \div 100 = a /\ v % 10 = c /\ ~(v < 10) /\ ~(v < 100)
      OBVIOUS
    <2>2. v \div 10 = 10 * a + b /\ (10 * a + b) % 10 = b
      OBVIOUS
    <2> QED BY <2>1, <2>2, Zenon
  <1>2. Digits(v) = <<Char(a), Char(b), Char(c)>>
    BY <1>1, Zenon DEF Digits
  <1>3. Char(a) = 48 + a /\ Char(b) = 48 + b /\ Char(c) = 48 + c
    BY CharOfDigit
  <1> QED BY <1>2, <1>3

(* What is written of a number of one digit.                               *)
LEMMA OneDigit == ASSUME NEW v \in 0..9 PROVE Digits(v) = <<48 + v>>
  <1>1. Digits(v) = <<Char(v)>>
    BY DEF Digits
  <1> QED BY <1>1, CharOfDigit

(* Two texts of one char put together.                                     *)
LEMMA OneAndOne ==
    ASSUME NEW a \in Int, NEW b \in Int
    PROVE  <<a>> \o <<b>> = <<a, b>>
  <1> DEFINE s == <<a>> \o <<b>>  t == <<a, b>>
  <1>1. /\ s \in Seq(Int) /\ t \in Seq(Int) /\ Len(s) = 2 /\ Len(t) = 2
        /\ s[1] = t[1] /\ s[2] = t[2]
    OBVIOUS
  <1> HIDE DEF s, t
  <1>2. \A k \in 1..Len(s) : s[k] = t[k]
    BY <1>1
  <1>3. s = t
    BY <1>1, <1>2, SeqEqual
  <1> QED BY <1>3 DEF s, t

(* A text of one char before one of two.                                   *)
LEMMA OneAndTwo ==
    ASSUME NEW a \in Int, NEW b \in Int, NEW c \in Int
    PROVE  <<a>> \o <<b, c>> = <<a, b, c>>
  <1> DEFINE s == <<a>> \o <<b, c>>  t == <<a, b, c>>
  <1>1. /\ s \in Seq(Int) /\ t \in Seq(Int) /\ Len(s) = 3 /\ Len(t) = 3
        /\ s[1] = t[1] /\ s[2] = t[2] /\ s[3] = t[3]
    OBVIOUS
  <1> HIDE DEF s, t
  <1>2. \A k \in 1..Len(s) : s[k] = t[k]
    BY <1>1
  <1>3. s = t
    BY <1>1, <1>2, SeqEqual
  <1> QED BY <1>3 DEF s, t

(* A text of two chars before one of one.                                  *)
LEMMA TwoAndOne ==
    ASSUME NEW a \in Int, NEW b \in Int, NEW c \in Int
    PROVE  <<a, b>> \o <<c>> = <<a, b, c>>
  <1> DEFINE s == <<a, b>> \o <<c>>  t == <<a, b, c>>
  <1>1. /\ s \in Seq(Int) /\ t \in Seq(Int) /\ Len(s) = 3 /\ Len(t) = 3
        /\ s[1] = t[1] /\ s[2] = t[2] /\ s[3] = t[3]
    OBVIOUS
  <1> HIDE DEF s, t
  <1>2. \A k \in 1..Len(s) : s[k] = t[k]
    BY <1>1
  <1>3. s = t
    BY <1>1, <1>2, SeqEqual
  <1> QED BY <1>3 DEF s, t

(* Nothing before a text of two chars.                                     *)
LEMMA NoneAndTwo == \A a, b \in Int : <<>> \o <<a, b>> = <<a, b>>
  OBVIOUS

(* Nothing before a text of three.                                         *)
LEMMA NoneAndThree == \A a, b, c \in Int : <<>> \o <<a, b, c>> = <<a, b, c>>
  OBVIOUS

(* A text filled with zeros on the left.                                   *)
Pad(n, s) == [j \in 1..(n - Len(s)) |-> 48] \o s

(* Texts of one to three chars in fields of two and of three.              *)
LEMMA Pads ==
    ASSUME NEW a \in Int, NEW b \in Int, NEW c \in Int
    PROVE  /\ Pad(2, <<a>>) = <<48, a>>
           /\ Pad(2, <<a, b>>) = <<a, b>>
           /\ Pad(3, <<a>>) = <<48, 48, a>>
           /\ Pad(3, <<a, b>>) = <<48, a, b>>
           /\ Pad(3, <<a, b, c>>) = <<a, b, c>>
  <1>1. [j \in 1..0 |-> 48] = <<>> /\ [j \in 1..1 |-> 48] = <<48>> /\ [j \in 1..2 |-> 48] = <<48, 48>>
    OBVIOUS
  <1>2. 2 - 1 = 1 /\ 2 - 2 = 0 /\ 3 - 1 = 2 /\ 3 - 2 = 1 /\ 3 - 3 = 0
    OBVIOUS
  <1>3. Len(<<a>>) = 1 /\ Len(<<a, b>>) = 2 /\ Len(<<a, b, c>>) = 3
    OBVIOUS
  <1>4. /\ <<48>> \o <<a>> = <<48, a>> /\ <<48>> \o <<a, b>> = <<48, a, b>>
        /\ <<48, 48>> \o <<a>> = <<48, 48, a>>
        /\ <<>> \o <<a, b>> = <<a, b>> /\ <<>> \o <<a, b, c>> = <<a, b, c>>
    <2>1. 48 \in Int
      OBVIOUS
    <2>2. <<48>> \o <<a>> = <<48, a>>
      BY <2>1, OneAndOne, SMT
    <2>3. <<48>> \o <<a, b>> = <<48, a, b>>
      BY <2>1, OneAndTwo, SMT
    <2>4. <<48, 48>> \o <<a>> = <<48, 48, a>>
      BY <2>1, TwoAndOne, SMT
    <2> QED BY <2>2, <2>3, <2>4, NoneAndTwo, NoneAndThree, SMT
  <1>5. Pad(2, <<a>>) = <<48, a>> /\ Pad(2, <<a, b>>) = <<a, b>>
    BY <1>1, <1>2, <1>3, <1>4, Zenon DEF Pad
  <1>6. Pad(3, <<a>>) = <<48, 48, a>> /\ Pad(3, <<a, b>>) = <<48, a, b>>
    BY <1>1, <1>2, <1>3, <1>4, Zenon DEF Pad
  <1>7. Pad(3, <<a, b, c>>) = <<a, b, c>>
    BY <1>1, <1>2, <1>3, <1>4, Zenon DEF Pad
  <1> QED BY <1>5, <1>6, <1>7

(* Three chars fill a field of three.                                      *)
LEMMA PadOfThree == \A a, b, c \in Int : Pad(3, <<a, b, c>>) = <<a, b, c>>
  BY Pads

(* setw(n) and setfill('0') fill on the left.                              *)
LEMMA SetwPads == \A n, v : Setw(n, v) = Pad(n, Decimal(v))
  BY Zenon DEF Setw, Pad

(* A field of two shows both digits of a number.                           *)
LEMMA SetwTwo ==
    ASSUME NEW a, NEW b, NEW v, IsTwo(v, a, b)
    PROVE  Setw(2, v) = <<48 + a, 48 + b>>
  <1> a \in 0..9 /\ b \in 0..9 /\ v = 10 * a + b
    BY DEF IsTwo
  <1>0. 48 + a \in Int /\ 48 + b \in Int
    OBVIOUS
  <1>1. Decimal(v) = Digits(v)
    BY DEF Decimal
  <1>2. CASE a = 0
    <2>1. Decimal(v) = <<48 + b>>
      BY <1>1, <1>2, OneDigit
    <2>2. Pad(2, <<48 + b>>) = <<48, 48 + b>>
      BY <1>0, Pads, Zenon
    <2>3. 48 = 48 + a
      BY <1>2
    <2> QED BY <2>1, <2>2, <2>3, SetwPads, Zenon
  <1>3. CASE a # 0
    <2>1. Decimal(v) = <<48 + a, 48 + b>>
      BY <1>1, <1>3, TwoDigits, Zenon
    <2>2. Pad(2, <<48 + a, 48 + b>>) = <<48 + a, 48 + b>>
      BY <1>0, Pads, Zenon
    <2> QED BY <2>1, <2>2, SetwPads, Zenon
  <1> QED BY <1>2, <1>3

(* A field of three shows the three digits of a number.                    *)
LEMMA SetwThree ==
    ASSUME NEW a, NEW b, NEW c, NEW v, IsThree(v, a, b, c)
    PROVE  Setw(3, v) = <<48 + a, 48 + b, 48 + c>>
  <1> a \in 0..9 /\ b \in 0..9 /\ c \in 0..9 /\ v = 100 * a + 10 * b + c
    BY DEF IsThree
  <1>0. 48 + a \in Int /\ 48 + b \in Int /\ 48 + c \in Int
    OBVIOUS
  <1>1. Decimal(v) = Digits(v)
    BY DEF Decimal
  <1>2. CASE a = 0 /\ b = 0
    <2>1. Decimal(v) = <<48 + c>>
      BY <1>1, <1>2, OneDigit
    <2>2. Pad(3, <<48 + c>>) = <<48, 48, 48 + c>>
      BY <1>0, Pads, Zenon
    <2>3. 48 = 48 + a /\ 48 = 48 + b
      BY <1>2
    <2>4. Setw(3, v) = <<48, 48, 48 + c>>
      BY <2>1, <2>2, SetwPads, Zenon
    <2> QED BY <2>3, <2>4
  <1>3. CASE a = 0 /\ b # 0
    <2>1. IsTwo(v, b, c)
      BY <1>3 DEF IsTwo
    <2>2. Decimal(v) = <<48 + b, 48 + c>>
      BY <1>1, <1>3, <2>1, TwoDigits, Zenon
    <2>3. Pad(3, <<48 + b, 48 + c>>) = <<48, 48 + b, 48 + c>>
      BY <1>0, Pads, Zenon
    <2>4. 48 = 48 + a
      BY <1>3
    <2> QED BY <2>2, <2>3, <2>4, SetwPads, Zenon
  <1>4. CASE a # 0
    <2>1. Decimal(v) = <<48 + a, 48 + b, 48 + c>>
      <3>1. Digits(v) = <<48 + a, 48 + b, 48 + c>>
        BY <1>4, ThreeDigits, Zenon
      <3> QED BY <1>1, <3>1, Zenon
    <2>2. Pad(3, <<48 + a, 48 + b, 48 + c>>) = <<48 + a, 48 + b, 48 + c>>
      BY <1>0, Pads, Zenon
    <2> QED BY <2>1, <2>2, SetwPads, Zenon
  <1> QED BY <1>2, <1>3, <1>4

(* Three digits that show the number n.                                    *)
Shows(mmm, n) ==
    /\ mmm \in Seq(Int) /\ Len(mmm) = 3 /\ \A j \in 1..3 : mmm[j] \in 48..57
    /\ 100 * (mmm[1] - 48) + 10 * (mmm[2] - 48) + (mmm[3] - 48) = n

(* Three chars with a sign among them, or a text of another length.        *)
WithSign(mmm) ==
    mmm \in Seq(Int) /\ (Len(mmm) = 3 => mmm[1] = 45 \/ mmm[2] = 45)

(* A negative number in a field of three shows its sign.                   *)
LEMMA SetwSigned ==
    ASSUME NEW a, NEW b, NEW c, NEW w, IsThree(w, a, b, c),
           NEW v, v = -w, v < 0
    PROVE  WithSign(Setw(3, v))
  <1> a \in 0..9 /\ b \in 0..9 /\ c \in 0..9 /\ w = 100 * a + 10 * b + c
    BY DEF IsThree
  <1>0. 45 \in Int /\ 48 + a \in Int /\ 48 + b \in Int /\ 48 + c \in Int
    OBVIOUS
  <1>1. Decimal(v) = <<45>> \o Digits(w)
    <2>1. -v = w
      BY SMT
    <2> QED BY <2>1, SMT DEF Decimal
  <1>2. CASE a = 0 /\ b = 0
    <2>1. Digits(w) = <<48 + c>>
      BY <1>2, OneDigit
    <2>2. <<45>> \o <<48 + c>> = <<45, 48 + c>>
      BY <1>0, OneAndOne, SMT
    <2>5. Pad(3, <<45, 48 + c>>) = <<48, 45, 48 + c>>
      BY <1>0, Pads, Zenon
    <2>3. Setw(3, v) = <<48, 45, 48 + c>>
      BY <1>1, <2>1, <2>2, <2>5, SetwPads, Zenon
    <2>4. <<48, 45, 48 + c>> \in Seq(Int) /\ <<48, 45, 48 + c>>[2] = 45
      BY <1>0
    <2> QED BY <2>3, <2>4, Zenon DEF WithSign
  <1>3. CASE a = 0 /\ b # 0
    <2>1. IsTwo(w, b, c)
      BY <1>3 DEF IsTwo
    <2>2. Digits(w) = <<48 + b, 48 + c>>
      BY <1>3, <2>1, TwoDigits, Zenon
    <2>3. <<45>> \o <<48 + b, 48 + c>> = <<45, 48 + b, 48 + c>>
      BY <1>0, OneAndTwo, SMT
    <2>6. Pad(3, <<45, 48 + b, 48 + c>>) = <<45, 48 + b, 48 + c>>
      BY <1>0, PadOfThree, SMT
    <2>4. Setw(3, v) = <<45, 48 + b, 48 + c>>
      BY <1>1, <2>2, <2>3, <2>6, SetwPads, Zenon
    <2>5. <<45, 48 + b, 48 + c>> \in Seq(Int) /\ <<45, 48 + b, 48 + c>>[1] = 45
      BY <1>0
    <2> QED BY <2>4, <2>5, Zenon DEF WithSign
  <1>4. CASE a # 0
    <2>1. Digits(w) = <<48 + a, 48 + b, 48 + c>>
      BY <1>4, ThreeDigits, Zenon
    <2> DEFINE s == <<45>> \o <<48 + a, 48 + b, 48 + c>>
    <2>2. s \in Seq(Int) /\ Len(s) = 4
      OBVIOUS
    <2> HIDE DEF s
    <2>3. 1..(3 - Len(s)) = {}
      BY <2>2
    <2>4. Pad(3, s) \in Seq(Int) /\ Len(Pad(3, s)) = 4
      BY <2>2, <2>3 DEF Pad
    <2>5. Setw(3, v) = Pad(3, s)
      <3>1. Decimal(v) = s
        BY <1>1, <2>1, Zenon DEF s
      <3> QED BY <3>1, SetwPads, Zenon
    <2>6. 4 # 3
      OBVIOUS
    <2> QED BY <2>4, <2>5, <2>6, Zenon DEF WithSign
  <1> QED BY <1>2, <1>3, <1>4

(* Both digits of a number of two are written.                             *)
LEMMA TwoOf ==
    ASSUME NEW v \in 0..99
    PROVE  \E a, b \in 0..9 : v = 10 * a + b /\ Setw(2, v) = <<48 + a, 48 + b>>
  <1> PICK a \in 0..9, b \in 0..9 : v = 10 * a + b
    OBVIOUS
  <1> IsTwo(v, a, b)
    BY DEF IsTwo
  <1>1. Setw(2, v) = <<48 + a, 48 + b>>
    BY SetwTwo, Zenon
  <1> QED BY <1>1

(* And the three of a number of three, which is shown.                     *)
LEMMA ThreeOf ==
    ASSUME NEW v \in Nat, v <= 999
    PROVE  Shows(Setw(3, v), v)
  <1>1. PICK a \in 0..9, b \in 0..9, c \in 0..9 : v = 100 * a + 10 * b + c
    BY SMT
  <1> DEFINE mmm == <<48 + a, 48 + b, 48 + c>>
  <1>5. IsThree(v, a, b, c)
    BY <1>1 DEF IsThree
  <1>2. Setw(3, v) = mmm
    BY <1>5, SetwThree, Zenon
  <1>3. /\ mmm \in Seq(Int) /\ Len(mmm) = 3
        /\ mmm[1] = 48 + a /\ mmm[2] = 48 + b /\ mmm[3] = 48 + c
    BY SMT
  <1> HIDE DEF mmm
  <1>4. Shows(mmm, v)
    BY <1>1, <1>3, SMTT(30) DEF Shows
  <1> QED BY <1>2, <1>4, Zenon

-----------------------------------------------------------------------------
(* The time of day                                                         *)

(* The second of the day that localtime breaks down.                       *)
LEMMA TimesOfDay ==
    ASSUME NEW s \in Int
    PROVE  \E y \in Nat :
             /\ y < 86400 /\ LocaltimeSafe(s) = TimeOfDay(y)
             /\ Windows /\ s < 0 => y = 0
             /\ ~(Windows /\ s < 0) => y = (s + Zone) % 86400
  <1>1. PICK y : y = IF Windows /\ s < 0 THEN 0 ELSE (s + Zone) % 86400
    BY SMT
  <1>2. y \in Nat /\ y < 86400
    BY <1>1, TimestampAssumption, SMT
  <1>3. LocaltimeSafe(s) = TimeOfDay(y)
    BY <1>1, SMT DEF LocaltimeSafe
  <1>4. (Windows /\ s < 0 => y = 0) /\ (~(Windows /\ s < 0) => y = (s + Zone) % 86400)
    BY <1>1, SMT
  <1> QED BY <1>2, <1>3, <1>4, SMT

(* Hours, minutes and seconds of a day are in range, and add up.           *)
LEMMA FieldsOf ==
    ASSUME NEW y \in Nat, y < 86400
    PROVE  /\ TimeOfDay(y).hour \in 0..59 /\ TimeOfDay(y).min \in 0..59
           /\ TimeOfDay(y).sec \in 0..59
           /\ y = 3600 * TimeOfDay(y).hour + 60 * TimeOfDay(y).min + TimeOfDay(y).sec
  <1>1. PICK h \in 0..59, r \in Nat : h = y \div 3600 /\ r = y % 3600 /\ y = 3600 * h + r /\ r < 3600
    BY SMT
  <1>2. PICK m \in Nat : m = r \div 60
    BY SMT
  <1>3. PICK s \in Int : s = r - 60 * m
    BY SMT
  <1>4. m \in 0..59 /\ s \in 0..59
    <2>1. 0 <= m /\ m <= 59 /\ 0 <= s /\ s <= 59
      BY <1>1, <1>2, <1>3, SMT
    <2> QED BY <2>1, SMT
  <1>5. y = 60 * (60 * h + m) + s
    BY <1>1, <1>3, SMT
  <1>6. y % 60 = s
    <2>1. PICK n \in Int : n = 60 * h + m /\ y = 60 * n + s
      BY <1>5, SMT
    <2> QED BY <1>4, <2>1, SMT
  <1>7. TimeOfDay(y) = [hour |-> h, min |-> m, sec |-> s]
    <2>1. (y % 3600) \div 60 = m
      BY <1>1, <1>2, SMT
    <2>2. y \div 3600 = h
      BY <1>1, SMT
    <2> QED BY <1>6, <2>1, <2>2, SMT DEF TimeOfDay
  <1>8. y = 3600 * h + 60 * m + s
    BY <1>5, SMT
  <1>9. TimeOfDay(y).hour = h /\ TimeOfDay(y).min = m /\ TimeOfDay(y).sec = s
    BY <1>7, SMT
  <1>10. h \in 0..59
    BY <1>1, SMT
  <1> QED BY <1>4, <1>8, <1>9, <1>10, SMT

(* From 1970 on, seconds and milliseconds are rounded down.                *)
LEMMA SinceEpoch ==
    ASSUME NEW t \in Int, t >= 0
    PROVE  \E s \in Nat, ms \in Nat :
             s = Seconds(t) /\ ms = Milliseconds(t) /\ ms <= 999 /\ t \div 2 = 1000 * s + ms
  <1>1. PICK s \in Nat : s = t \div 2000
    BY SMT
  <1>2. PICK r \in Int : r = t - 2000 * s
    BY SMT
  <1>3. 0 <= r /\ r < 2000
    BY <1>1, <1>2, SMT
  <1>4. Seconds(t) = s
    <2>1. Quot(t, 2000) = s
      BY <1>1, SMT DEF Quot
    <2> QED BY <2>1, SMT DEF Seconds
  <1>5. PICK ms \in Nat : ms = r \div 2
    BY <1>3, SMT
  <1>6. Milliseconds(t) = ms
    <2>1. Quot(r, 2) = ms
      BY <1>3, <1>5, SMT DEF Quot
    <2> QED BY <1>2, <1>4, <2>1, SMT DEF Milliseconds
  <1>7. ms <= 999 /\ t \div 2 = 1000 * s + ms
    BY <1>2, <1>3, <1>5, SMT
  <1> QED BY <1>4, <1>6, <1>7, SMT

(* Before 1970 they are rounded up: milliseconds are not positive.         *)
LEMMA BeforeEpoch ==
    ASSUME NEW t \in Int, t < 0
    PROVE  \E s \in Int, ms \in Int :
             /\ s = Seconds(t) /\ ms = Milliseconds(t) /\ -999 <= ms /\ ms <= 0
             /\ ms = 0 /\ t % 2000 = 0 => t \div 2000 = s /\ t \div 2 = 1000 * s /\ s < 0
             /\ ms = 0 /\ t % 2000 # 0 => t \div 2 = 1000 * s - 1
             /\ ms # 0 => t % 2000 # 0
  <1>1. PICK n \in Nat : n = (-t) \div 2000
    BY SMT
  <1>2. PICK r \in Int : r = -t - 2000 * n
    BY SMT
  <1>3. 0 <= r /\ r < 2000
    BY <1>1, <1>2, SMT
  <1>4. Seconds(t) = -n
    <2>1. Quot(t, 2000) = -n
      BY <1>1, SMT DEF Quot
    <2> QED BY <2>1, SMT DEF Seconds
  <1>5. PICK k \in Nat : k = r \div 2
    BY <1>3, SMT
  <1>6. Milliseconds(t) = -k
    <2>1. Quot(-r, 2) = -k
      BY <1>3, <1>5, SMT DEF Quot
    <2>2. t - 2000 * (-n) = -r
      BY <1>2, SMT
    <2> QED BY <1>4, <2>1, <2>2, SMT DEF Milliseconds
  <1>7. k <= 999 /\ (k = 0 <=> r = 0 \/ r = 1)
    BY <1>3, <1>5, SMT
  <1>8. r = 0 => t % 2000 = 0 /\ t \div 2000 = -n /\ t \div 2 = 1000 * (-n) /\ -n < 0
    BY <1>2, SMT
  <1>9. r = 1 => t \div 2 = 1000 * (-n) - 1
    BY <1>2, SMT
  <1>10. t % 2000 = 0 => r = 0
    BY <1>2, <1>3, SMT
  <1> QED BY <1>4, <1>6, <1>7, <1>8, <1>9, <1>10, SMT

-----------------------------------------------------------------------------
(* Where the fields of a text are                                          *)

(* What a concatenation holds.                                             *)
LEMMA Appends ==
    ASSUME NEW s \in Seq(Int), NEW t \in Seq(Int)
    PROVE  /\ s \o t \in Seq(Int) /\ Len(s \o t) = Len(s) + Len(t)
           /\ \A n \in 1..Len(s) : (s \o t)[n] = s[n]
           /\ \A n \in 1..Len(t) : (s \o t)[Len(s) + n] = t[n]
  OBVIOUS

(* What two texts hold that are put together with a separator.             *)
LEMMA Field ==
    ASSUME NEW s \in Seq(Int), NEW x \in Int, NEW t \in Seq(Int)
    PROVE  /\ s \o <<x>> \o t \in Seq(Int) /\ Len(s \o <<x>> \o t) = Len(s) + 1 + Len(t)
           /\ \A n \in 1..Len(s) : (s \o <<x>> \o t)[n] = s[n]
           /\ \A n \in 1..Len(t) : (s \o <<x>> \o t)[Len(s) + 1 + n] = t[n]
  <1> DEFINE u == s \o <<x>>
  <1>1. <<x>> \in Seq(Int) /\ Len(<<x>>) = 1
    OBVIOUS
  <1>2. u \in Seq(Int) /\ Len(u) = Len(s) + 1 /\ \A n \in 1..Len(s) : u[n] = s[n]
    BY <1>1, Appends
  <1> HIDE DEF u
  <1>3. /\ u \o t \in Seq(Int) /\ Len(u \o t) = Len(u) + Len(t)
        /\ \A n \in 1..Len(u) : (u \o t)[n] = u[n]
        /\ \A n \in 1..Len(t) : (u \o t)[Len(u) + n] = t[n]
    BY <1>2, Appends
  <1>4. /\ u \o t \in Seq(Int) /\ Len(u \o t) = Len(s) + 1 + Len(t)
        /\ \A n \in 1..Len(s) : (u \o t)[n] = s[n]
        /\ \A n \in 1..Len(t) : (u \o t)[Len(s) + 1 + n] = t[n]
    BY <1>2, <1>3
  <1> QED BY <1>4 DEF u

(* A text of its fields.                                                   *)
Clock(hh, mm, ss, mmm) ==
    hh \o <<58>> \o mm \o <<58>> \o ss \o <<46>> \o mmm \o <<32>>

(* Where the fields are in the text of a time.                             *)
ClockParts(text, hh, mm, ss, mmm) ==
    /\ text \in Seq(Int) /\ Len(text) = 10 + Len(mmm)
    /\ text[1] = hh[1] /\ text[2] = hh[2] /\ text[4] = mm[1] /\ text[5] = mm[2]
    /\ text[7] = ss[1] /\ text[8] = ss[2]
    /\ Len(mmm) = 3 => text[10] = mmm[1] /\ text[11] = mmm[2] /\ text[12] = mmm[3]

(* Clock puts them there.                                                  *)
LEMMA ClockReads ==
    ASSUME NEW hh \in Seq(Int), NEW mm \in Seq(Int), NEW ss \in Seq(Int), NEW mmm \in Seq(Int),
           Len(hh) = 2, Len(mm) = 2, Len(ss) = 2, NEW text, text = Clock(hh, mm, ss, mmm)
    PROVE  ClockParts(text, hh, mm, ss, mmm)
  <1> DEFINE p == hh \o <<58>> \o mm
             q == p \o <<58>> \o ss
             r == q \o <<46>> \o mmm
             whole == r \o <<32>>
  <1>1. /\ p \in Seq(Int) /\ Len(p) = 5 /\ p[1] = hh[1] /\ p[2] = hh[2]
        /\ p[4] = mm[1] /\ p[5] = mm[2]
    <2>1. /\ p \in Seq(Int) /\ Len(p) = 5 /\ \A n \in 1..2 : p[n] = hh[n]
          /\ \A n \in 1..2 : p[2 + 1 + n] = mm[n]
      <3>1. /\ p \in Seq(Int) /\ Len(p) = Len(hh) + 1 + Len(mm)
            /\ \A n \in 1..Len(hh) : p[n] = hh[n]
            /\ \A n \in 1..Len(mm) : p[Len(hh) + 1 + n] = mm[n]
        <4>1. 58 \in Int
          OBVIOUS
        <4> QED BY <4>1, Field, Zenon
      <3> HIDE DEF p
      <3> QED BY <3>1
    <2> HIDE DEF p
    <2> QED BY <2>1
  <1> HIDE DEF p
  <1>2. /\ q \in Seq(Int) /\ Len(q) = 8 /\ q[1] = hh[1] /\ q[2] = hh[2]
        /\ q[4] = mm[1] /\ q[5] = mm[2] /\ q[7] = ss[1] /\ q[8] = ss[2]
    <2>1. /\ q \in Seq(Int) /\ Len(q) = 8 /\ \A n \in 1..5 : q[n] = p[n]
          /\ \A n \in 1..2 : q[5 + 1 + n] = ss[n]
      <3>1. /\ q \in Seq(Int) /\ Len(q) = Len(p) + 1 + Len(ss)
            /\ \A n \in 1..Len(p) : q[n] = p[n]
            /\ \A n \in 1..Len(ss) : q[Len(p) + 1 + n] = ss[n]
        <4>1. 58 \in Int
          OBVIOUS
        <4> QED BY <1>1, <4>1, Field, Zenon
      <3> HIDE DEF q
      <3> QED BY <1>1, <3>1
    <2> HIDE DEF q
    <2> QED BY <1>1, <2>1
  <1> HIDE DEF q
  <1>3. /\ r \in Seq(Int) /\ Len(r) = 9 + Len(mmm) /\ r[1] = hh[1] /\ r[2] = hh[2]
        /\ r[4] = mm[1] /\ r[5] = mm[2] /\ r[7] = ss[1] /\ r[8] = ss[2]
        /\ Len(mmm) = 3 => r[10] = mmm[1] /\ r[11] = mmm[2] /\ r[12] = mmm[3]
    <2>1. /\ r \in Seq(Int) /\ Len(r) = 8 + 1 + Len(mmm) /\ \A n \in 1..8 : r[n] = q[n]
          /\ \A n \in 1..Len(mmm) : r[8 + 1 + n] = mmm[n]
      <3>1. /\ r \in Seq(Int) /\ Len(r) = Len(q) + 1 + Len(mmm)
            /\ \A n \in 1..Len(q) : r[n] = q[n]
            /\ \A n \in 1..Len(mmm) : r[Len(q) + 1 + n] = mmm[n]
        <4>1. 46 \in Int
          OBVIOUS
        <4> QED BY <1>2, <4>1, Field, Zenon
      <3> HIDE DEF r
      <3> QED BY <1>2, <3>1
    <2> HIDE DEF r
    <2>2. Len(mmm) = 3 => r[10] = mmm[1] /\ r[11] = mmm[2] /\ r[12] = mmm[3]
      BY <2>1
    <2> QED BY <1>2, <2>1, <2>2, SMTT(30)
  <1> HIDE DEF r
  <1>4. /\ whole \in Seq(Int) /\ Len(whole) = 10 + Len(mmm) /\ whole[1] = hh[1] /\ whole[2] = hh[2]
        /\ whole[4] = mm[1] /\ whole[5] = mm[2] /\ whole[7] = ss[1] /\ whole[8] = ss[2]
        /\ Len(mmm) = 3 => whole[10] = mmm[1] /\ whole[11] = mmm[2] /\ whole[12] = mmm[3]
    <2>1. /\ whole \in Seq(Int) /\ Len(whole) = Len(r) + 1 /\ \A n \in 1..Len(r) : whole[n] = r[n]
      <3>1. <<32>> \in Seq(Int) /\ Len(<<32>>) = 1
        OBVIOUS
      <3> QED BY <1>3, <3>1, Appends
    <2> HIDE DEF whole
    <2>2. Len(mmm) \in Nat
      OBVIOUS
    <2>3. Len(r) \in Nat /\ Len(r) >= 9 /\ (Len(mmm) = 3 => Len(r) = 12)
      <3>1. Len(r) = 9 + Len(mmm)
        BY <1>3
      <3>2. ASSUME Len(mmm) = 3 PROVE Len(r) = 12
        BY <3>1, <3>2
      <3> QED BY <2>2, <3>1, <3>2
    <2>4. /\ whole[1] = r[1] /\ whole[2] = r[2] /\ whole[4] = r[4] /\ whole[5] = r[5]
          /\ whole[7] = r[7] /\ whole[8] = r[8]
          /\ Len(mmm) = 3 => whole[10] = r[10] /\ whole[11] = r[11] /\ whole[12] = r[12]
      <3>1. \A n \in {1, 2, 4, 5, 7, 8} : n \in 1..Len(r)
        BY <2>3
      <3>3. whole[1] = r[1] /\ whole[2] = r[2] /\ whole[4] = r[4] /\ whole[5] = r[5]
        BY <2>1, <3>1
      <3>4. whole[7] = r[7] /\ whole[8] = r[8]
        BY <2>1, <3>1
      <3>5. ASSUME Len(mmm) = 3
            PROVE  whole[10] = r[10] /\ whole[11] = r[11] /\ whole[12] = r[12]
        <4>1. Len(r) = 12
          BY <2>3, <3>5
        <4>2. 10 \in 1..Len(r) /\ 11 \in 1..Len(r) /\ 12 \in 1..Len(r)
          BY <4>1
        <4> QED BY <2>1, <4>2
      <3> QED BY <3>3, <3>4, <3>5
    <2>5. Len(whole) = 10 + Len(mmm)
      BY <1>3, <2>1, <2>2
    <2> QED BY <1>3, <2>1, <2>4, <2>5
  <1>5. text = whole
    BY Zenon DEF Clock, p, q, r, whole
  <1> HIDE DEF whole
  <1> QED BY <1>4, <1>5 DEF ClockParts

(* Six digits that read as the second y of the day.                        *)
TimeRead(y, hh, mm, ss) ==
    1000 * y = 3600000 * (10 * (hh[1] - 48) + (hh[2] - 48))
               + 60000 * (10 * (mm[1] - 48) + (mm[2] - 48))
               + 1000 * (10 * (ss[1] - 48) + (ss[2] - 48))

(* Three fields of two digits that do.                                     *)
IsTime(y, hh, mm, ss) ==
    /\ Len(hh) = 2 /\ Len(mm) = 2 /\ Len(ss) = 2
    /\ \A n \in 1..2 : hh[n] \in 48..57 /\ mm[n] \in 48..57 /\ ss[n] \in 48..57
    /\ TimeRead(y, hh, mm, ss)

(* A text that shows the second y of the day, and mmm.                     *)
TimeText(text, y, mmm) ==
    \E hh, mm, ss \in Seq(Int) : text = Clock(hh, mm, ss, mmm) /\ IsTime(y, hh, mm, ss)

(* The text of fields that show it.                                        *)
LEMMA TimeTextOf ==
    ASSUME NEW y, NEW hh \in Seq(Int), NEW mm \in Seq(Int), NEW ss \in Seq(Int), NEW mmm,
           IsTime(y, hh, mm, ss)
    PROVE  TimeText(Clock(hh, mm, ss, mmm), y, mmm)
  BY Zenon DEF TimeText

(* to_string shows the second of the day that localtime found.             *)
LEMMA TextOf ==
    ASSUME NEW t \in Int, NEW y \in Nat, y < 86400,
           LocaltimeSafe(Seconds(t)) = TimeOfDay(y)
    PROVE  TimeText(to_string(t), y, Setw(3, Milliseconds(t)))
  <1> DEFINE tm == TimeOfDay(y)
             h == tm.hour
             m == tm.min
             s == tm.sec
  <1>1. /\ h \in 0..59 /\ m \in 0..59 /\ s \in 0..59
        /\ y = 3600 * h + 60 * m + s
    BY FieldsOf, SMT
  <1> HIDE DEF h, m, s, tm
  <1>2. PICK a \in 0..9, b \in 0..9 : h = 10 * a + b /\ Setw(2, h) = <<48 + a, 48 + b>>
    BY <1>1, TwoOf, SMT
  <1>3. PICK c \in 0..9, d \in 0..9 : m = 10 * c + d /\ Setw(2, m) = <<48 + c, 48 + d>>
    BY <1>1, TwoOf, SMT
  <1>4. PICK e \in 0..9, f \in 0..9 : s = 10 * e + f /\ Setw(2, s) = <<48 + e, 48 + f>>
    BY <1>1, TwoOf, SMT
  <1> DEFINE hh == <<48 + a, 48 + b>>
             mm == <<48 + c, 48 + d>>
             ss == <<48 + e, 48 + f>>
  <1>5. hh \in Seq(Int) /\ mm \in Seq(Int) /\ ss \in Seq(Int)
    BY SMT
  <1>6. /\ Len(hh) = 2 /\ Len(mm) = 2 /\ Len(ss) = 2
        /\ hh[1] = 48 + a /\ hh[2] = 48 + b /\ mm[1] = 48 + c /\ mm[2] = 48 + d
        /\ ss[1] = 48 + e /\ ss[2] = 48 + f
    BY SMT
  <1>8. Setw(2, h) = hh /\ Setw(2, m) = mm /\ Setw(2, s) = ss
    BY <1>2, <1>3, <1>4, SMT
  <1> HIDE DEF hh, mm, ss
  <1>9. PutTime(LocaltimeSafe(Seconds(t))) = hh \o <<58>> \o mm \o <<58>> \o ss
    <2>3. PutTime(tm) = hh \o <<58>> \o mm \o <<58>> \o ss
      BY <1>8, SMT DEF PutTime, h, m, s
    <2> QED BY <2>3, SMT DEF tm
  <1>10. to_string(t) = Clock(hh, mm, ss, Setw(3, Milliseconds(t)))
    BY <1>9, SMT DEF to_string, Clock
  <1>11. \A n \in 1..2 : hh[n] \in 48..57 /\ mm[n] \in 48..57 /\ ss[n] \in 48..57
    <2>1. /\ hh[1] \in 48..57 /\ hh[2] \in 48..57 /\ mm[1] \in 48..57 /\ mm[2] \in 48..57
          /\ ss[1] \in 48..57 /\ ss[2] \in 48..57
      BY <1>6, SMT
    <2>2. \A n \in 1..2 : n = 1 \/ n = 2
      BY SMT
    <2> QED BY <2>1, <2>2, SMT
  <1>12. TimeRead(y, hh, mm, ss)
    <2> USE DEF TimeRead
    <2> QED BY <1>1, <1>2, <1>3, <1>4, <1>6, SMT
  <1>13. IsTime(y, hh, mm, ss)
    BY <1>6, <1>11, <1>12, SMT DEF IsTime
  <1> QED BY <1>5, <1>10, <1>13, TimeTextOf, SMT

-----------------------------------------------------------------------------
(* Exact texts                                                             *)

(* A text of digits that reads e, as TextIsExact has it.                   *)
Exact(text, e) ==
    /\ Len(text) = 13
    /\ \A n \in {1, 2, 4, 5, 7, 8, 10, 11, 12} : text[n] \in 48..57
    /\ Reads(text) = e

(* A text with milliseconds n is exact if and only if e is 1000 y + n.     *)
LEMMA ExactText ==
    ASSUME NEW text, NEW y \in Nat, NEW e \in Int, NEW mmm \in Seq(Int), TimeText(text, y, mmm)
    PROVE  \A n \in Int : Shows(mmm, n) => (Exact(text, e) <=> e = 1000 * y + n)
  <1>1. PICK hh \in Seq(Int), mm \in Seq(Int), ss \in Seq(Int) :
          text = Clock(hh, mm, ss, mmm) /\ IsTime(y, hh, mm, ss)
    BY Zenon DEF TimeText
  <1>2. Len(hh) = 2 /\ Len(mm) = 2 /\ Len(ss) = 2
    BY <1>1, SMT DEF IsTime
  <1>3. /\ text \in Seq(Int) /\ Len(text) = 10 + Len(mmm)
        /\ text[1] = hh[1] /\ text[2] = hh[2] /\ text[4] = mm[1] /\ text[5] = mm[2]
        /\ text[7] = ss[1] /\ text[8] = ss[2]
        /\ Len(mmm) = 3 => text[10] = mmm[1] /\ text[11] = mmm[2] /\ text[12] = mmm[3]
    <2>1. ClockParts(text, hh, mm, ss, mmm)
      BY <1>1, <1>2, ClockReads, SMT
    <2> QED BY <2>1, SMT DEF ClockParts
  <1>4. TimeRead(y, hh, mm, ss)
    BY <1>1, SMT DEF IsTime
  <1>5. /\ hh[1] \in 48..57 /\ hh[2] \in 48..57 /\ mm[1] \in 48..57 /\ mm[2] \in 48..57
        /\ ss[1] \in 48..57 /\ ss[2] \in 48..57
    BY <1>1, SMT DEF IsTime
  <1>6. ASSUME NEW n \in Int, Shows(mmm, n)
        PROVE  Exact(text, e) <=> e = 1000 * y + n
    <2>0. Len(mmm) = 3 /\ 100 * (mmm[1] - 48) + 10 * (mmm[2] - 48) + (mmm[3] - 48) = n
      BY <1>6, SMT DEF Shows
    <2>1. mmm[1] \in 48..57 /\ mmm[2] \in 48..57 /\ mmm[3] \in 48..57
      BY <1>6, SMT DEF Shows
    <2>2. Len(text) = 13
      BY <1>3, <2>0, SMT
    <2>3. text[10] = mmm[1] /\ text[11] = mmm[2] /\ text[12] = mmm[3]
      BY <1>3, <2>0, SMT
    <2>4. text[1] = hh[1] /\ text[2] = hh[2] /\ text[4] = mm[1] /\ text[5] = mm[2]
          /\ text[7] = ss[1] /\ text[8] = ss[2]
      BY <1>3, SMT
    <2>5. \A k \in {1, 2, 4, 5, 7, 8, 10, 11, 12} : text[k] \in 48..57
      <3>1. /\ text[1] \in 48..57 /\ text[2] \in 48..57 /\ text[4] \in 48..57
            /\ text[5] \in 48..57 /\ text[7] \in 48..57 /\ text[8] \in 48..57
        BY <1>5, <2>4, Zenon
      <3>2. text[10] \in 48..57 /\ text[11] \in 48..57 /\ text[12] \in 48..57
        BY <2>1, <2>3, Zenon
      <3> QED BY <3>1, <3>2, Zenon
    <2>6. Reads(text) = 1000 * y + n
      <3>1. Reads(text) = 3600000 * (10 * (hh[1] - 48) + (hh[2] - 48))
                          + 60000 * (10 * (mm[1] - 48) + (mm[2] - 48))
                          + 1000 * (10 * (ss[1] - 48) + (ss[2] - 48))
                          + 100 * (mmm[1] - 48) + 10 * (mmm[2] - 48) + (mmm[3] - 48)
        BY <2>3, <2>4, SMT DEF Reads
      <3>2. PICK a \in 48..57, b \in 48..57, c \in 48..57, d \in 48..57, f \in 48..57, g \in 48..57 :
              /\ a = hh[1] /\ b = hh[2] /\ c = mm[1] /\ d = mm[2] /\ f = ss[1] /\ g = ss[2]
        BY <1>5, Zenon
      <3>3. PICK p \in 48..57, q \in 48..57, r \in 48..57 :
              p = mmm[1] /\ q = mmm[2] /\ r = mmm[3]
        BY <2>1, Zenon
      <3>4. 1000 * y = 3600000 * (10 * (a - 48) + (b - 48)) + 60000 * (10 * (c - 48) + (d - 48))
                       + 1000 * (10 * (f - 48) + (g - 48))
        BY <1>4, <3>2, SMT DEF TimeRead
      <3>5. n = 100 * (p - 48) + 10 * (q - 48) + (r - 48)
        BY <2>0, <3>3, SMT
      <3>6. Reads(text) = 3600000 * (10 * (a - 48) + (b - 48)) + 60000 * (10 * (c - 48) + (d - 48))
                          + 1000 * (10 * (f - 48) + (g - 48))
                          + 100 * (p - 48) + 10 * (q - 48) + (r - 48)
        BY <3>1, <3>2, <3>3, SMT
      <3> QED BY <3>4, <3>5, <3>6, SMT
    <2>7. Exact(text, e) <=> Reads(text) = e
      BY <2>2, <2>5, Zenon DEF Exact
    <2> QED BY <2>6, <2>7, SMT
  <1> QED BY <1>6

(* A text with a signed field is not exact.                                *)
LEMMA SignedText ==
    ASSUME NEW text, NEW y \in Nat, NEW e \in Int, NEW mmm \in Seq(Int),
           TimeText(text, y, mmm), WithSign(mmm)
    PROVE  ~Exact(text, e)
  <1>1. PICK hh \in Seq(Int), mm \in Seq(Int), ss \in Seq(Int) :
          text = Clock(hh, mm, ss, mmm) /\ IsTime(y, hh, mm, ss)
    BY Zenon DEF TimeText
  <1>2. Len(hh) = 2 /\ Len(mm) = 2 /\ Len(ss) = 2
    BY <1>1, SMT DEF IsTime
  <1>3. ClockParts(text, hh, mm, ss, mmm)
    BY <1>1, <1>2, ClockReads, SMT
  <1>4. SUFFICES ASSUME Exact(text, e) PROVE FALSE
    OBVIOUS
  <1>5. Len(mmm) = 3
    <2>1. Len(text) = 13
      BY <1>4, Zenon DEF Exact
    <2>2. Len(text) = 10 + Len(mmm) /\ Len(mmm) \in Nat
      BY <1>3, SMT DEF ClockParts
    <2>3. PICK k \in Nat : k = Len(mmm)
      BY <2>2, SMT
    <2>4. 13 = 10 + k
      BY <2>1, <2>2, <2>3, Zenon
    <2>5. k = 3
      BY <2>4, SMT
    <2> QED BY <2>3, <2>5, SMT
  <1>6. text[10] \in 48..57 /\ text[11] \in 48..57
    BY <1>4, SMT DEF Exact
  <1>7. text[10] = mmm[1] /\ text[11] = mmm[2]
    BY <1>3, <1>5, SMT DEF ClockParts
  <1>8. mmm[1] = 45 \/ mmm[2] = 45
    BY <1>5, SMT DEF WithSign
  <1>9. 45 \notin 48..57
    BY SMT
  <1> QED BY <1>6, <1>7, <1>8, <1>9, Zenon

(* Days wrap the same in seconds and in milliseconds.                      *)
LEMMA DaysWrap ==
    ASSUME NEW x \in Int, NEW n \in Int, 0 <= n, n <= 999
    PROVE  (1000 * x + n) % 86400000 = 1000 * (x % 86400) + n
  <1>1. PICK q \in Int : q = x \div 86400
    BY SMT
  <1>2. PICK r \in Int : r = x % 86400
    BY SMT
  <1>3. x = 86400 * q + r /\ 0 <= r /\ r < 86400
    BY <1>1, <1>2, SMT
  <1>4. (1000 * x + n) % 86400000 = 1000 * r + n
    <2>1. PICK z \in Int : z = 1000 * x + n
      BY SMT
    <2>2. PICK u \in Int : u = 1000 * r + n
      BY <1>3, SMT
    <2>3. z = 86400000 * q + u /\ 0 <= u /\ u < 86400000
      BY <1>3, <2>1, <2>2, SMT
    <2>4. z % 86400000 = u
      BY <2>3, SMT
    <2> QED BY <2>1, <2>2, <2>4, SMT
  <1> QED BY <1>2, <1>4, SMT

(* A millisecond before a whole second is no whole second.                 *)
LEMMA NotWhole ==
    ASSUME NEW x \in Int, NEW y \in Int
    PROVE  (1000 * x - 1) % 86400000 # 1000 * y
  <1>1. PICK z \in Int : z = 1000 * x - 1
    BY SMT
  <1>2. PICK k \in Int : k = z \div 86400000
    BY SMT
  <1>3. PICK v \in Int : v = z % 86400000
    BY SMT
  <1>4. z = 86400000 * k + v
    BY <1>2, <1>3, SMT
  <1>5. 1000 * x - 1 = 86400000 * k + v
    BY <1>1, <1>4, SMT
  <1>6. v # 1000 * y
    BY <1>5, SMT
  <1> QED BY <1>1, <1>3, <1>6, SMT

(* The text of any instant is exact from 1970 on, and at those whole       *)
(* seconds before for which the time of day is right; never otherwise.     *)
LEMMA TextsAreExact ==
    ASSUME NEW t \in Int
    PROVE  Exact(to_string(t), (t \div 2 + 1000 * Zone) % 86400000)
           <=> \/ t >= 0
               \/ t % 2000 = 0 /\ (Windows => (t \div 2000 + Zone) % 86400 = 0)
  <1> Zone \in Int
    BY TimestampAssumption
  <1> DEFINE e == (t \div 2 + 1000 * Zone) % 86400000
             text == to_string(t)
  <1>0. e \in Int
    BY SMT
  <1>1. CASE t >= 0
    <2>1. PICK s \in Nat, ms \in Nat :
            s = Seconds(t) /\ ms = Milliseconds(t) /\ ms <= 999 /\ t \div 2 = 1000 * s + ms
      BY <1>1, SinceEpoch, SMT
    <2>0. 0 <= ms /\ ms <= 999
      BY <2>1, SMT
    <2>2. PICK y \in Nat : y < 86400 /\ LocaltimeSafe(s) = TimeOfDay(y) /\ y = (s + Zone) % 86400
      <3>1. s \in Int /\ ~(s < 0)
        BY SMT
      <3> QED BY <3>1, TimesOfDay, SMT
    <2>3. PICK mmm : mmm = Setw(3, ms) /\ Shows(mmm, ms)
      BY <2>0, ThreeOf, SMT
    <2>4. mmm \in Seq(Int) /\ Shows(mmm, ms)
      BY <2>3, SMT DEF Shows
    <2>5. Setw(3, ms) = mmm
      BY <2>3
    <2> HIDE DEF text
    <2>6. TimeText(text, y, mmm)
      BY <2>1, <2>2, <2>5, TextOf, SMT DEF text
    <2>7. e = 1000 * y + ms
      <3>1. PICK x \in Int : x = s + Zone
        BY SMT
      <3>2. (1000 * x + ms) % 86400000 = 1000 * (x % 86400) + ms
        BY <2>0, DaysWrap, SMT
      <3>3. t \div 2 + 1000 * Zone = 1000 * x + ms
        <4>1. PICK d \in Int : d = t \div 2
          BY SMT
        <4>2. d = 1000 * s + ms
          BY <2>1, <4>1, SMT
        <4>3. d + 1000 * Zone = 1000 * x + ms
          BY <3>1, <4>2, SMT
        <4> QED BY <4>1, <4>3, SMT
      <3> QED BY <2>2, <3>1, <3>2, <3>3, SMT
    <2> HIDE DEF e
    <2>9. Exact(text, e)
      BY <1>0, <2>4, <2>6, <2>7, ExactText, SMT
    <2> QED BY <1>1, <2>9, SMT DEF e, text
  <1>2. CASE t < 0
    <2>1. PICK s \in Int, ms \in Int :
             /\ s = Seconds(t) /\ ms = Milliseconds(t) /\ -999 <= ms /\ ms <= 0
             /\ ms = 0 /\ t % 2000 = 0 => t \div 2000 = s /\ t \div 2 = 1000 * s /\ s < 0
             /\ ms = 0 /\ t % 2000 # 0 => t \div 2 = 1000 * s - 1
             /\ ms # 0 => t % 2000 # 0
      BY <1>2, BeforeEpoch, SMT
    <2>2. PICK y \in Nat :
             /\ y < 86400 /\ LocaltimeSafe(s) = TimeOfDay(y)
             /\ Windows /\ s < 0 => y = 0
             /\ ~(Windows /\ s < 0) => y = (s + Zone) % 86400
      BY <2>1, TimesOfDay, SMTT(30)
    <2>3. TimeText(text, y, Setw(3, ms))
      BY <2>1, <2>2, TextOf, SMT
    <2> HIDE DEF text
    <2>4. CASE ms = 0
      <3>1. PICK mmm : mmm = Setw(3, ms) /\ Shows(mmm, ms)
        <4>1. ms \in Nat /\ ms <= 999
          BY <2>4, SMT
        <4> QED BY <4>1, ThreeOf, SMT
      <3>2. Setw(3, ms) = mmm /\ mmm \in Seq(Int) /\ Shows(mmm, 0)
        <4>1. Setw(3, ms) = mmm
          BY <3>1
        <4>2. mmm \in Seq(Int)
          BY <3>1, SMT DEF Shows
        <4> QED BY <2>4, <3>1, <4>1, <4>2, SMT
      <3> HIDE DEF e
      <3>3. TimeText(text, y, mmm)
        BY <2>3, <3>2, SMT
      <3>5. Exact(text, e) <=> e = 1000 * y
        <4>1. 0 \in Int /\ 1000 * y + 0 = 1000 * y
          BY SMT
        <4>2. Exact(text, e) <=> e = 1000 * y + 0
          BY <1>0, <3>2, <3>3, <4>1, ExactText, SMT
        <4> QED BY <4>1, <4>2, SMT
      <3>6. PICK x \in Int : x = s + Zone
        BY SMT
      <3>7. 0 <= 0 /\ 0 <= 999
        BY SMT
      <3>8. /\ (1000 * x + 0) % 86400000 = 1000 * (x % 86400) + 0
            /\ (1000 * x - 1) % 86400000 # 1000 * y
        BY <3>7, DaysWrap, NotWhole, SMT
      <3>9. CASE t % 2000 = 0
        <4>1. t \div 2000 = s /\ t \div 2 = 1000 * s /\ s < 0
          BY <2>1, <2>4, <3>9, SMT
        <4>2. e = 1000 * (x % 86400)
          BY <3>6, <3>8, <4>1, SMT DEF e
        <4>3. e = 1000 * y <=> (Windows => x % 86400 = 0)
          BY <2>2, <3>6, <4>1, <4>2, SMT
        <4> QED BY <1>2, <3>5, <3>6, <3>9, <4>1, <4>3, SMT DEF e, text
      <3>10. CASE t % 2000 # 0
        <4>1. t \div 2 = 1000 * s - 1
          BY <2>1, <2>4, <3>10, SMT
        <4>2. e # 1000 * y
          BY <3>6, <3>8, <4>1, SMT DEF e
        <4> QED BY <1>2, <3>5, <3>10, <4>2, SMT DEF e, text
      <3> QED BY <3>9, <3>10, SMT
    <2>5. CASE ms # 0
      <3>1. WithSign(Setw(3, ms)) /\ Setw(3, ms) \in Seq(Int)
        <4>1. PICK w \in Nat : w = -ms /\ w <= 999 /\ ms = -w /\ ms < 0
          <5>1. -999 <= ms /\ ms <= 0
            BY <2>1, SMT
          <5> QED BY <2>5, <5>1, SMT
        <4>2. PICK a \in 0..9, b \in 0..9, c \in 0..9 : w = 100 * a + 10 * b + c
          BY <4>1, SMT
        <4>4. IsThree(w, a, b, c)
          BY <4>2, SMT DEF IsThree
        <4>3. WithSign(Setw(3, ms))
          BY <4>1, <4>4, SetwSigned, SMT
        <4> QED BY <4>3, SMT DEF WithSign
      <3> HIDE DEF e
      <3>2. ~Exact(text, e)
        BY <1>0, <2>3, <3>1, SignedText, SMT
      <3>3. t % 2000 # 0
        BY <2>1, <2>5, SMT
      <3> QED BY <1>2, <3>2, <3>3, SMT DEF e, text
    <2> QED BY <2>4, <2>5, SMT
  <1> QED BY <1>1, <1>2, SMT

-----------------------------------------------------------------------------
(* The theorems                                                            *)

(* What is shown is the text of the instant.                               *)
TimestampInv == now \in Instants /\ shown = to_string(now)

(* That is so whenever something was logged.                               *)
LEMMA TimestampInvariance == TimestampSpec => []TimestampInv
  <1>1. TimestampInit => TimestampInv
    BY Zenon DEF TimestampInit, TimestampInv
  <1>2. ASSUME TimestampInv, [TimestampNext]_timestampVars
        PROVE  TimestampInv'
    BY <1>2, Zenon DEF TimestampInv, TimestampNext, Log, timestampVars
  <1> QED BY <1>1, <1>2, PTL DEF TimestampSpec

(* to_string() gives the local time of day, read back exactly to a         *)
(* millisecond, from 1970 on; before 1970 at whole seconds only (on        *)
(* Windows: whole seconds for which midnight is right). For any instants,  *)
(* time zone and platform.                                                 *)
THEOREM TextsDoRead == TimestampSpec => []TextIsExact
  <1>1. TimestampInv => TextIsExact
    <2>1. SUFFICES ASSUME TimestampInv PROVE TextIsExact
      OBVIOUS
    <2>2. now \in Int /\ shown = to_string(now)
      BY <2>1, TimestampAssumption, SMT DEF TimestampInv
    <2>3. Exact(shown, (now \div 2 + 1000 * Zone) % 86400000)
          <=> \/ now >= 0
              \/ now % 2000 = 0 /\ (Windows => (now \div 2000 + Zone) % 86400 = 0)
      BY <2>2, TextsAreExact, SMT
    <2>5. PICK e : e = (now \div 2 + 1000 * Zone) % 86400000
      BY SMT
    <2>4. Exact(shown, e) <=> /\ Len(shown) = 13
                              /\ \A k \in {1, 2, 4, 5, 7, 8, 10, 11, 12} : shown[k] \in 48..57
                              /\ Reads(shown) = e
      BY Zenon DEF Exact
    <2> QED BY <2>2, <2>3, <2>4, <2>5, TimestampAssumption, SMT DEF TextIsExact
  <1> QED BY <1>1, TimestampInvariance, PTL

-----------------------------------------------------------------------------
(* Strings: positions, and what trim() keeps                               *)

(* First() of some positions is the first of them.                         *)
LEMMA FirstIs ==
  ASSUME NEW n \in Nat, NEW T \in SUBSET (0..n), T # {}
  PROVE  First(T) \in T /\ \A y \in T : First(T) <= y
<1>1. \E x \in T : \A y \in T : x <= y
  BY LeastExists
<1>2. Min(T) \in T /\ \A y \in T : Min(T) <= y
  BY <1>1, Zenon DEF Min
<1> QED BY <1>2, Zenon DEF First

(* Final() of some positions is the last of them.                          *)
LEMMA FinalIs ==
  ASSUME NEW n \in Nat, NEW T \in SUBSET (0..n), T # {}
  PROVE  Final(T) \in T /\ \A y \in T : Final(T) >= y
<1>1. \E x \in T : \A y \in T : x >= y
  BY GreatestExists
<1>2. Max(T) \in T /\ \A y \in T : Max(T) >= y
  BY <1>1, Zenon DEF Max
<1> QED BY <1>2, Zenon DEF Final

(* What is before a position, and what is from it on.                      *)
LEMMA SubstrIs ==
  ASSUME NEW s \in Seq(Chars), NEW k \in 0..Len(s), Len(s) < npos, npos \in Nat
  PROVE  Substr(s, 0, k) = SubSeq(s, 1, k) /\ Substr(s, k, npos) = SubSeq(s, k + 1, Len(s))
<1>1. Len(s) \in Nat
  OBVIOUS
<1>2. Min({Len(s), 0 + k}) = k
  <2>1. 0 + k = k /\ k \in Int /\ Len(s) \in Int /\ k <= Len(s)
    BY <1>1
  <2> QED BY <2>1, MinOfTwo, Zenon
<1>3. Min({Len(s), k + npos}) = Len(s)
  <2>1. k + npos \in Int /\ Len(s) \in Int /\ Len(s) <= k + npos
    BY <1>1
  <2> QED BY <2>1, MinOfTwo, SMT
<1>4. Substr(s, 0, k) = SubSeq(s, 0 + 1, k)
  BY <1>2, Zenon DEF Substr
<1>5. Substr(s, k, npos) = SubSeq(s, k + 1, Len(s))
  BY <1>3, Zenon DEF Substr
<1>6. 0 + 1 = 1
  OBVIOUS
<1> QED BY <1>4, <1>5, <1>6, Zenon

(* What a part of a string is.                                             *)
LEMMA SubSeqIs ==
  ASSUME NEW s \in Seq(Chars), NEW a \in Int, NEW b \in Int, 1 <= a, b <= Len(s)
  PROVE  /\ SubSeq(s, a, b) \in Seq(Chars)
         /\ Len(SubSeq(s, a, b)) = IF a <= b THEN b - a + 1 ELSE 0
         /\ \A k \in 1..(b - a + 1) : SubSeq(s, a, b)[k] = s[a + k - 1]
<1>1. \A k \in a..b : s[k] \in Chars
  OBVIOUS
<1> QED BY <1>1, SubSeqProperties

(* erase() to the end keeps what is before.                                *)
LEMMA ErasesEnd ==
  ASSUME NEW s \in Seq(Chars), NEW k \in 0..Len(s), Len(s) < npos, npos \in Nat
  PROVE  Erase(s, k, npos) = SubSeq(s, 1, k)
<1>1. Len(s) \in Nat /\ Len(s) \in 0..Len(s)
  OBVIOUS
<1>2. Min({Len(s), k + npos}) = Len(s)
  <2>1. k + npos \in Int /\ Len(s) \in Int /\ Len(s) <= k + npos
    BY <1>1
  <2> QED BY <2>1, MinOfTwo, Zenon
<1>3. Substr(s, 0, k) = SubSeq(s, 1, k)
  BY SubstrIs
<1>4. Substr(s, Len(s), npos) = <<>>
  <2>1. Substr(s, Len(s), npos) = SubSeq(s, Len(s) + 1, Len(s))
    BY <1>1, SubstrIs
  <2> QED BY <1>1, <2>1, SubSeqEmpty
<1>5. SubSeq(s, 1, k) \in Seq(Chars)
  BY SubSeqIs
<1>6. Erase(s, k, npos) = SubSeq(s, 1, k) \o <<>>
  BY <1>2, <1>3, <1>4, Zenon DEF Erase
<1> QED BY <1>5, <1>6, ConcatEmptySeq

(* erase() from the beginning keeps what is after.                         *)
LEMMA ErasesBeginning ==
  ASSUME NEW s \in Seq(Chars), NEW k \in 0..Len(s), Len(s) < npos, npos \in Nat
  PROVE  Erase(s, 0, k) = SubSeq(s, k + 1, Len(s))
<1>1. Len(s) \in Nat /\ 0 \in 0..Len(s)
  OBVIOUS
<1>2. Min({Len(s), 0 + k}) = k
  <2>1. 0 + k = k /\ k \in Int /\ Len(s) \in Int /\ k <= Len(s)
    BY <1>1
  <2> QED BY <2>1, MinOfTwo, Zenon
<1>3. Substr(s, k, npos) = SubSeq(s, k + 1, Len(s))
  BY SubstrIs
<1>4. Substr(s, 0, 0) = <<>>
  <2>1. Substr(s, 0, 0) = SubSeq(s, 1, 0)
    BY <1>1, SubstrIs
  <2> QED BY <2>1, SubSeqEmpty
<1>5. SubSeq(s, k + 1, Len(s)) \in Seq(Chars)
  BY <1>1, SubSeqIs
<1>6. Erase(s, 0, k) = <<>> \o SubSeq(s, k + 1, Len(s))
  BY <1>2, <1>3, <1>4, Zenon DEF Erase
<1> QED BY <1>5, <1>6, ConcatEmptySeq

(* erase() of everything keeps nothing: what is left of blanks only.       *)
LEMMA ErasesAll ==
  ASSUME NEW s \in Seq(Chars), Len(s) < npos, npos \in Nat
  PROVE  Erase(s, 0, npos) = <<>>
<1>1. 0 \in 0..Len(s)
  OBVIOUS
<1>2. Erase(s, 0, npos) = SubSeq(s, 1, 0)
  BY <1>1, ErasesEnd
<1> QED BY <1>2, SubSeqEmpty

(* trim_right() keeps what is up to the last character that is not blank.  *)
LEMMA RightTrimmed ==
  ASSUME NEW s \in Seq(Chars), Len(s) < npos, npos \in Nat
  PROVE  \E m \in 0..Len(s) :
            /\ TrimRight(s) = SubSeq(s, 1, m)
            /\ \A q \in (m + 1)..Len(s) : s[q] \in Blank
            /\ m > 0 => s[m] \notin Blank
<1> DEFINE T == {p \in 0..(Len(s) - 1) : s[p + 1] \notin Blank}
<1>1. Len(s) \in Nat
  OBVIOUS
<1>2. TrimRight(s) = Erase(s, Next1(Final(T)), npos)
  BY DEF TrimRight, FindLastNotOf
<1>3. T \in SUBSET (0..Len(s)) /\ \A p \in 0..(Len(s) - 1) : p \notin T => s[p + 1] \in Blank
  BY <1>1
<1>4. ASSUME NEW q \in 1..Len(s), q - 1 \notin T PROVE s[q] \in Blank
  <2>1. q - 1 \in 0..(Len(s) - 1) /\ (q - 1) + 1 = q
    BY <1>1
  <2> QED BY <1>4, <2>1
<1>5. CASE T = {}
  <2>1. Final(T) = npos
    BY <1>5, Zenon DEF Final
  <2>2. Next1(npos) = 0
    BY DEF Next1
  <2>3. TrimRight(s) = SubSeq(s, 1, 0)
    <3>1. TrimRight(s) = Erase(s, 0, npos)
      BY <1>2, <2>1, <2>2, Zenon
    <3>2. SubSeq(s, 1, 0) = <<>>
      BY SubSeqEmpty
    <3> QED BY <3>1, <3>2, ErasesAll, Zenon
  <2>4. \A q \in 1..Len(s) : s[q] \in Blank
    BY <1>4, <1>5
  <2> WITNESS 0 \in 0..Len(s)
  <2> HIDE DEF T
  <2> QED BY <1>1, <2>3, <2>4
<1>6. CASE T # {}
  <2>1. Final(T) \in T /\ \A y \in T : Final(T) >= y
    <3> HIDE DEF T
    <3> QED BY <1>1, <1>3, <1>6, FinalIs
  <2>2. PICK f \in 0..(Len(s) - 1) : f = Final(T) /\ s[f + 1] \notin Blank /\ \A y \in T : f >= y
    BY <2>1
  <2>3. Next1(f) = f + 1
    BY <1>1 DEF Next1
  <2>4. f + 1 \in 0..Len(s)
    BY <1>1
  <2>5. TrimRight(s) = SubSeq(s, 1, f + 1)
    <3> HIDE DEF T
    <3> QED BY <1>2, <2>2, <2>3, <2>4, ErasesEnd
  <2>6. ASSUME NEW q \in ((f + 1) + 1)..Len(s) PROVE s[q] \in Blank
    <3>1. q \in 1..Len(s) /\ q - 1 \in Int /\ ~(f >= q - 1)
      BY <1>1
    <3>2. q - 1 \notin T
      BY <2>2, <3>1
    <3> QED BY <1>4, <3>1, <3>2
  <2> HIDE DEF T
  <2> QED BY <2>2, <2>4, <2>5, <2>6
<1> QED BY <1>5, <1>6

(* trim_left() keeps what is from the first such character on.             *)
LEMMA LeftTrimmed ==
  ASSUME NEW s \in Seq(Chars), Len(s) < npos, npos \in Nat
  PROVE  \E f \in 0..Len(s) :
            /\ TrimLeft(s) = SubSeq(s, f + 1, Len(s))
            /\ \A q \in 1..f : s[q] \in Blank
            /\ f < Len(s) => s[f + 1] \notin Blank
<1> DEFINE T == {p \in 0..(Len(s) - 1) : s[p + 1] \notin Blank}
<1>1. Len(s) \in Nat
  OBVIOUS
<1>2. TrimLeft(s) = Erase(s, 0, First(T))
  BY DEF TrimLeft, FindFirstNotOf
<1>3. T \in SUBSET (0..Len(s)) /\ \A p \in 0..(Len(s) - 1) : p \notin T => s[p + 1] \in Blank
  BY <1>1
<1>4. ASSUME NEW q \in 1..Len(s), q - 1 \notin T PROVE s[q] \in Blank
  <2>1. q - 1 \in 0..(Len(s) - 1) /\ (q - 1) + 1 = q
    BY <1>1
  <2> QED BY <1>4, <2>1
<1>5. CASE T = {}
  <2>1. First(T) = npos
    BY <1>5, Zenon DEF First
  <2>2. TrimLeft(s) = SubSeq(s, Len(s) + 1, Len(s))
    <3>1. TrimLeft(s) = Erase(s, 0, npos)
      BY <1>2, <2>1, Zenon
    <3>2. SubSeq(s, Len(s) + 1, Len(s)) = <<>>
      BY <1>1, SubSeqEmpty
    <3> QED BY <3>1, <3>2, ErasesAll, Zenon
  <2>3. \A q \in 1..Len(s) : s[q] \in Blank
    BY <1>4, <1>5
  <2>4. Len(s) \in 0..Len(s)
    BY <1>1
  <2> HIDE DEF T
  <2> QED BY <1>1, <2>2, <2>3, <2>4
<1>6. CASE T # {}
  <2>1. First(T) \in T /\ \A y \in T : First(T) <= y
    <3> HIDE DEF T
    <3> QED BY <1>1, <1>3, <1>6, FirstIs
  <2>2. PICK f \in 0..(Len(s) - 1) : f = First(T) /\ s[f + 1] \notin Blank /\ \A y \in T : f <= y
    BY <2>1
  <2>3. f \in 0..Len(s)
    BY <1>1
  <2>4. TrimLeft(s) = SubSeq(s, f + 1, Len(s))
    <3> HIDE DEF T
    <3> QED BY <1>2, <2>2, <2>3, ErasesBeginning
  <2>5. ASSUME NEW q \in 1..f PROVE s[q] \in Blank
    <3>1. q \in 1..Len(s) /\ q - 1 \in Int /\ ~(f <= q - 1)
      BY <1>1
    <3>2. q - 1 \notin T
      BY <2>2, <3>1
    <3> QED BY <1>4, <3>1, <3>2
  <2> HIDE DEF T
  <2> QED BY <2>2, <2>3, <2>4, <2>5
<1> QED BY <1>5, <1>6

(* trim() trims both ends.                                                 *)
LEMMA Trimmed ==
  ASSUME input \in Seq(Chars), Len(input) < npos, npos \in Nat
  PROVE  TrimIsExact
<1>1. PICK m \in 0..Len(input) :
            /\ TrimRight(input) = SubSeq(input, 1, m)
            /\ \A q \in (m + 1)..Len(input) : input[q] \in Blank
            /\ m > 0 => input[m] \notin Blank
  BY RightTrimmed
<1> DEFINE u == TrimRight(input)
           t == Trim(input)
<1>2. /\ Len(input) \in Nat /\ m \in Nat /\ m <= Len(input)
  OBVIOUS
<1>3. u \in Seq(Chars) /\ Len(u) = m /\ \A k \in 1..m : u[k] = input[k]
  BY <1>1, <1>2, SubSeqIs
<1>4. PICK f \in 0..Len(u) :
            /\ TrimLeft(u) = SubSeq(u, f + 1, Len(u))
            /\ \A q \in 1..f : u[q] \in Blank
            /\ f < Len(u) => u[f + 1] \notin Blank
  <2> HIDE DEF u
  <2>1. Len(u) < npos
    BY <1>2, <1>3
  <2> QED BY <1>3, <2>1, LeftTrimmed
<1>5. f \in Nat /\ f <= m
  BY <1>2, <1>3
<1>6. t = SubSeq(u, f + 1, m)
  BY <1>3, <1>4 DEF Trim
<1> HIDE DEF u, t
<1>7. t \in Seq(Chars) /\ Len(t) = m - f /\ \A k \in 1..(m - f) : t[k] = input[f + k]
  <2>1. /\ t \in Seq(Chars) /\ Len(t) = m - f
        /\ \A k \in 1..(m - (f + 1) + 1) : t[k] = u[(f + 1) + k - 1]
    BY <1>2, <1>3, <1>5, <1>6, SubSeqIs
  <2>2. ASSUME NEW k \in 1..(m - f) PROVE t[k] = input[f + k]
    <3>1. k \in 1..(m - (f + 1) + 1) /\ (f + 1) + k - 1 = f + k /\ f + k \in 1..m
      BY <1>2, <1>5
    <3> QED BY <1>3, <2>1, <3>1
  <2> QED BY <2>1, <2>2
<1>8. SubSeq(input, f + 1, f + Len(t)) = t
  <2> DEFINE v == SubSeq(input, f + 1, f + Len(t))
  <2>1. /\ v \in Seq(Chars) /\ Len(v) = m - f
        /\ \A k \in 1..((f + Len(t)) - (f + 1) + 1) : v[k] = input[(f + 1) + k - 1]
    BY <1>2, <1>5, <1>7, SubSeqIs
  <2> HIDE DEF v
  <2>2. ASSUME NEW k \in 1..(m - f) PROVE v[k] = t[k]
    <3>1. k \in 1..((f + Len(t)) - (f + 1) + 1) /\ (f + 1) + k - 1 = f + k
      BY <1>2, <1>5, <1>7
    <3> QED BY <1>7, <2>1, <3>1
  <2>3. Len(v) = Len(t)
    BY <1>7, <2>1
  <2>4. v = t
    BY <1>2, <1>5, <1>7, <2>1, <2>2, <2>3, SeqEqual
  <2> QED BY <2>4 DEF v
<1>9. \A q \in (1..f) \cup ((f + Len(t) + 1)..Len(input)) : input[q] \in Blank
  <2>1. \A q \in 1..f : input[q] \in Blank
    BY <1>2, <1>3, <1>4, <1>5
  <2>2. \A q \in (f + Len(t) + 1)..Len(input) : input[q] \in Blank
    BY <1>1, <1>2, <1>5, <1>7
  <2> QED BY <2>1, <2>2
<1>10. ASSUME t # <<>> PROVE t[1] \notin Blank /\ Last(t) \notin Blank
  <2>1. Len(t) > 0
    BY <1>7, <1>10
  <2>2. f < m /\ 1 \in 1..(m - f) /\ m - f \in 1..(m - f) /\ f + (m - f) = m
    BY <1>2, <1>5, <1>7, <2>1
  <2>3. t[1] = u[f + 1]
    BY <1>2, <1>3, <1>5, <1>7, <2>2
  <2>4. Last(t) = input[m]
    BY <1>7, <2>2 DEF Last
  <2> QED BY <1>1, <1>2, <1>3, <1>4, <1>5, <2>2, <2>3, <2>4
<1>11. f \in 0..Len(input)
  BY <1>2, <1>5
<1> QED BY <1>8, <1>9, <1>10, <1>11 DEF TrimIsExact, t

-----------------------------------------------------------------------------
(* Joining: a fold of tokens, one more at a time                           *)

(* Every text so far and every token has its text and token after it.      *)
Text == Seq(Chars)
Joining(d) == [x \in Text |-> [t \in Text |-> x \o d \o t]]

(* Join() is a fold of the tokens after the first.                         *)
LEMMA JoinFolds ==
  ASSUME NEW toks \in Seq(Text), toks # <<>>, NEW d \in Text
  PROVE  \E h : /\ Folds(h, Text, Joining(d), toks[1], Tail(toks))
                /\ Join(toks, d) = h[1..Len(Tail(toks))]
<1> DEFINE rest == Tail(toks)
           n == Len(rest)
           J(h) == h = [s \in SUBSET DOMAIN rest |->
                          IF s = {} THEN toks[1] ELSE h[s \ {Max(s)}] \o d \o rest[Max(s)]]
<1>1. Join(toks, d) = (CHOOSE h : J(h))[DOMAIN rest]
  BY Zenon DEF Join, FoldLeft, MapThenFoldSet
<1>2. rest \in Seq(Text) /\ toks[1] \in Text /\ DOMAIN rest = 1..n /\ n \in Nat
  OBVIOUS
<1>3. Joining(d) \in [Text -> [Text -> Text]]
  BY DEF Joining, Text
<1>4. \A x \in Text, t \in Text : Joining(d)[x][t] = x \o d \o t
  BY DEF Joining
<1> HIDE DEF rest
<1>5. \E g : J(g)
  <2>1. PICK g : FoldUpto(g, Text, Joining(d), toks[1], rest, n)
    BY <1>2, <1>3, FoldExists
  <2>2. ASSUME NEW s \in SUBSET (1..n)
        PROVE  g[s] = IF s = {} THEN toks[1] ELSE g[s \ {Max(s)}] \o d \o rest[Max(s)]
    <3>1. g[s] = IF s = {} THEN toks[1] ELSE Joining(d)[g[s \ {Max(s)}]][rest[Max(s)]]
      BY <2>1 DEF FoldUpto, FoldsAt
    <3>2. ASSUME s # {} PROVE g[s \ {Max(s)}] \in Text /\ rest[Max(s)] \in Text
      <4>1. Max(s) \in 1..n
        BY <1>2, <3>2, MaxIs
      <4>2. s \ {Max(s)} \in SUBSET (1..n)
        OBVIOUS
      <4>3. g \in [SUBSET (1..n) -> Text]
        BY <2>1 DEF FoldUpto
      <4>4. rest[Max(s)] \in Text
        BY <1>2, <4>1, ElementOfSeq
      <4> QED BY <4>2, <4>3, <4>4
    <3> QED BY <1>4, <3>1, <3>2, Zenon
  <2>3. g = [s \in SUBSET (1..n) |-> g[s]]
    BY <2>1, Zenon DEF FoldUpto
  <2>4. J(g)
    BY <1>2, <2>2, <2>3, Zenon
  <2> QED BY <2>4, Zenon
<1>6. PICK h : J(h) /\ Join(toks, d) = h[DOMAIN rest]
  <2> HIDE DEF J
  <2> QED BY <1>1, <1>5, Zenon
<1>7. \A s \in SUBSET (1..n) :
        h[s] = IF s = {} THEN toks[1] ELSE h[s \ {Max(s)}] \o d \o rest[Max(s)]
  BY <1>2, <1>6, Zenon
<1>8. h[{}] = toks[1]
  BY <1>7
<1>9. ASSUME NEW k \in 1..n, h[1..(k - 1)] \in Text
      PROVE  h[1..k] = Joining(d)[h[1..(k - 1)]][rest[k]]
  <2>1. Max(1..k) = k /\ (1..k) \ {k} = 1..(k - 1) /\ 1..k \in SUBSET (1..n) /\ 1..k # {}
    BY <1>2, MaxOfFirst
  <2>2. h[1..k] = h[1..(k - 1)] \o d \o rest[k]
    BY <1>7, <2>1, Zenon
  <2>3. rest[k] \in Text
    BY <1>2, ElementOfSeq
  <2> QED BY <1>4, <1>9, <2>2, <2>3, Zenon
<1>10. Folds(h, Text, Joining(d), toks[1], rest)
  BY <1>8, <1>9, Zenon DEF Folds
<1> QED BY <1>2, <1>6, <1>10, Zenon DEF rest

(* One token is itself.                                                    *)
LEMMA JoinOfOne ==
  ASSUME NEW t \in Text, NEW d \in Text
  PROVE  Join(<<t>>, d) = t
<1>1. <<t>> \in Seq(Text) /\ <<t>> # <<>> /\ Tail(<<t>>) = <<>> /\ <<t>>[1] = t /\ Len(<<>>) = 0
  OBVIOUS
<1>2. PICK h : /\ Folds(h, Text, Joining(d), <<t>>[1], Tail(<<t>>))
               /\ Join(<<t>>, d) = h[1..Len(Tail(<<t>>))]
  <2> DEFINE toks == <<t>>
  <2>1. toks \in Seq(Text) /\ toks # <<>>
    BY <1>1
  <2> HIDE DEF toks
  <2>2. \E h : /\ Folds(h, Text, Joining(d), toks[1], Tail(toks))
               /\ Join(toks, d) = h[1..Len(Tail(toks))]
    BY <2>1, JoinFolds
  <2> QED BY <2>2 DEF toks
<1>3. 1..0 = {}
  OBVIOUS
<1>4. h[{}] = t
  BY <1>1, <1>2, Zenon DEF Folds
<1> QED BY <1>1, <1>2, <1>3, <1>4, Zenon

(* One more token comes after a delimiter.                                 *)
LEMMA JoinOfAppend ==
  ASSUME NEW toks \in Seq(Text), toks # <<>>, NEW t \in Text, NEW d \in Text
  PROVE  Join(Append(toks, t), d) = Join(toks, d) \o d \o t /\ Join(toks, d) \in Text
<1> DEFINE rest == Tail(toks)
           more == Append(toks, t)
<1>1. /\ rest \in Seq(Text) /\ toks[1] \in Text /\ more \in Seq(Text) /\ more # <<>>
      /\ more[1] = toks[1] /\ Tail(more) = Append(rest, t) /\ Len(Tail(more)) = Len(rest) + 1
  OBVIOUS
<1> HIDE DEF more
<1>2. PICK g : Folds(g, Text, Joining(d), toks[1], Tail(toks)) /\ Join(toks, d) = g[1..Len(Tail(toks))]
  BY JoinFolds
<1>3. PICK h : Folds(h, Text, Joining(d), more[1], Tail(more)) /\ Join(more, d) = h[1..Len(Tail(more))]
  BY <1>1, JoinFolds
<1>4. Joining(d) \in [Text -> [Text -> Text]] /\ \A x \in Text : Joining(d)[x][t] = x \o d \o t
  BY DEF Joining, Text
<1> HIDE DEF rest
<1>5. Folds(g, Text, Joining(d), toks[1], rest) /\ Folds(h, Text, Joining(d), toks[1], Append(rest, t))
  BY <1>1, <1>2, <1>3, Zenon DEF rest
<1>6. h[1..(Len(rest) + 1)] = Joining(d)[g[1..Len(rest)]][t] /\ g[1..Len(rest)] \in Text
  BY <1>1, <1>4, <1>5, FoldOfAppend
<1>7. Join(more, d) = h[1..(Len(rest) + 1)] /\ Join(toks, d) = g[1..Len(rest)]
  BY <1>1, <1>2, <1>3, Zenon DEF rest
<1> QED BY <1>4, <1>6, <1>7, Zenon DEF more
(* What a stream has been given, and what it is given with one more token. *)
Printed == [separate : BOOLEAN, text : Text]
Printing(d) ==
  [out \in Printed |-> [t \in Text |->
     [separate |-> TRUE, text |-> out.text \o (IF out.separate THEN d ELSE <<>>) \o t]]]
Unprinted == [separate |-> FALSE, text |-> <<>>]

(* ostream_join's operator<< is a fold of all the tokens.                  *)
LEMMA OstreamJoinFolds ==
  ASSUME NEW toks \in Seq(Text), NEW d \in Text
  PROVE  \E h : /\ Folds(h, Printed, Printing(d), Unprinted, toks)
                /\ OstreamJoin(toks, d) = h[1..Len(toks)].text
<1> DEFINE n == Len(toks)
           Put(out, t) == [separate |-> TRUE,
                           text |-> out.text \o (IF out.separate THEN d ELSE <<>>) \o t]
           J(h) == h = [s \in SUBSET DOMAIN toks |->
                          IF s = {} THEN Unprinted ELSE Put(h[s \ {Max(s)}], toks[Max(s)])]
<1>1. OstreamJoin(toks, d) = (CHOOSE h : J(h))[DOMAIN toks].text
  BY Zenon DEF OstreamJoin, FoldLeft, MapThenFoldSet, Unprinted
<1>2. DOMAIN toks = 1..n /\ n \in Nat
  OBVIOUS
<1>3. Unprinted \in Printed
  BY EmptySeq DEF Unprinted, Printed, Text
<1>4. ASSUME NEW out \in Printed, NEW t \in Text
      PROVE  Put(out, t) \in Printed
  <2>1. (IF out.separate THEN d ELSE <<>>) \in Text /\ out.text \in Text
    BY EmptySeq DEF Text, Printed
  <2>2. out.text \o (IF out.separate THEN d ELSE <<>>) \o t \in Text
    BY <2>1, ConcatProperties DEF Text
  <2> QED BY <2>2 DEF Printed
<1>5. Printing(d) \in [Printed -> [Text -> Printed]]
      /\ \A x \in Printed, t \in Text : Printing(d)[x][t] = Put(x, t)
  <2>1. Printing(d) = [x \in Printed |-> [t \in Text |-> Put(x, t)]]
    BY DEF Printing
  <2> HIDE DEF Put
  <2> QED BY <1>4, <2>1
<1> HIDE DEF Put
<1>6. \E g : J(g)
  <2>1. PICK g : FoldUpto(g, Printed, Printing(d), Unprinted, toks, n)
    BY <1>3, <1>5, FoldExists
  <2>2. ASSUME NEW s \in SUBSET (1..n)
        PROVE  g[s] = IF s = {} THEN Unprinted ELSE Put(g[s \ {Max(s)}], toks[Max(s)])
    <3>1. g[s] = IF s = {} THEN Unprinted ELSE Printing(d)[g[s \ {Max(s)}]][toks[Max(s)]]
      BY <2>1 DEF FoldUpto, FoldsAt
    <3>2. ASSUME s # {} PROVE g[s \ {Max(s)}] \in Printed /\ toks[Max(s)] \in Text
      <4>1. Max(s) \in 1..n
        BY <1>2, <3>2, MaxIs
      <4>2. s \ {Max(s)} \in SUBSET (1..n)
        OBVIOUS
      <4>3. g \in [SUBSET (1..n) -> Printed]
        BY <2>1 DEF FoldUpto
      <4>4. toks[Max(s)] \in Text
        BY <1>2, <4>1, ElementOfSeq
      <4> QED BY <4>2, <4>3, <4>4
    <3> QED BY <1>5, <3>1, <3>2, Zenon
  <2>3. g = [s \in SUBSET (1..n) |-> g[s]]
    BY <2>1, Zenon DEF FoldUpto
  <2>4. J(g)
    BY <1>2, <2>2, <2>3, Zenon
  <2> QED BY <2>4, Zenon
<1>7. PICK h : J(h) /\ OstreamJoin(toks, d) = h[DOMAIN toks].text
  <2> HIDE DEF J
  <2> QED BY <1>1, <1>6, Zenon
<1>8. \A s \in SUBSET (1..n) :
        h[s] = IF s = {} THEN Unprinted ELSE Put(h[s \ {Max(s)}], toks[Max(s)])
  BY <1>2, <1>7, Zenon
<1>9. h[{}] = Unprinted
  BY <1>8
<1>10. ASSUME NEW k \in 1..n, h[1..(k - 1)] \in Printed
      PROVE  h[1..k] = Printing(d)[h[1..(k - 1)]][toks[k]]
  <2>1. Max(1..k) = k /\ (1..k) \ {k} = 1..(k - 1) /\ 1..k \in SUBSET (1..n) /\ 1..k # {}
    BY <1>2, MaxOfFirst
  <2>2. h[1..k] = Put(h[1..(k - 1)], toks[k])
    BY <1>8, <2>1, Zenon
  <2>3. toks[k] \in Text
    BY <1>2, ElementOfSeq
  <2> QED BY <1>5, <1>10, <2>2, <2>3, Zenon
<1>11. Folds(h, Printed, Printing(d), Unprinted, toks)
  BY <1>9, <1>10, Zenon DEF Folds
<1> QED BY <1>2, <1>7, <1>11, Zenon

(* The first token is printed as it is; one more token comes after a       *)
(* delimiter.                                                              *)
LEMMA OstreamJoinOfAppend ==
  ASSUME NEW toks \in Seq(Text), NEW t \in Text, NEW d \in Text
  PROVE  OstreamJoin(Append(toks, t), d) = IF toks = <<>> THEN t ELSE OstreamJoin(toks, d) \o d \o t
<1> DEFINE more == Append(toks, t)
           n == Len(toks)
<1>1. /\ more \in Seq(Text) /\ Len(more) = n + 1 /\ n \in Nat
      /\ toks = <<>> <=> n = 0
  OBVIOUS
<1>2. PICK g : Folds(g, Printed, Printing(d), Unprinted, toks) /\ OstreamJoin(toks, d) = g[1..n].text
  BY OstreamJoinFolds
<1>3. PICK h : Folds(h, Printed, Printing(d), Unprinted, more) /\ OstreamJoin(more, d) = h[1..(n + 1)].text
  <2> HIDE DEF more
  <2> QED BY <1>1, OstreamJoinFolds
<1>4. Unprinted \in Printed
  BY EmptySeq DEF Unprinted, Printed, Text
<1>5. ASSUME NEW out \in Printed, NEW w \in Text
      PROVE  /\ Printing(d)[out][w] \in Printed
             /\ Printing(d)[out][w].separate
             /\ Printing(d)[out][w].text = IF out.separate THEN out.text \o d \o w ELSE out.text \o w
  <2>1. out.separate \in BOOLEAN /\ out.text \in Text
    BY DEF Printed
  <2>2. out.text \o d \o w \in Text /\ out.text \o w \in Text
    BY <2>1, ConcatProperties DEF Text
  <2>3. out.text \o <<>> = out.text
    BY <2>1, ConcatEmptySeq DEF Text
  <2>4. Printing(d)[out][w] =
          [separate |-> TRUE, text |-> out.text \o (IF out.separate THEN d ELSE <<>>) \o w]
    BY Zenon DEF Printing
  <2>5. CASE out.separate
    <3>1. Printing(d)[out][w] = [separate |-> TRUE, text |-> out.text \o d \o w]
      BY <2>4, <2>5, Zenon
    <3> QED BY <2>2, <2>5, <3>1 DEF Printed
  <2>6. CASE ~out.separate
    <3>1. Printing(d)[out][w] = [separate |-> TRUE, text |-> out.text \o w]
      BY <2>3, <2>4, <2>6, Zenon
    <3> QED BY <2>2, <2>6, <3>1 DEF Printed
  <2> QED BY <2>1, <2>5, <2>6
<1>6. Printing(d) \in [Printed -> [Text -> Printed]]
  <2>1. Printing(d) = [out \in Printed |-> [w \in Text |-> Printing(d)[out][w]]]
    BY Zenon DEF Printing
  <2> QED BY <1>5, <2>1
<1>7. h[1..(n + 1)] = Printing(d)[g[1..n]][t] /\ g[1..n] \in Printed
  BY <1>2, <1>3, <1>4, <1>6, FoldOfAppend
<1>8. OstreamJoin(more, d) = IF g[1..n].separate THEN g[1..n].text \o d \o t ELSE g[1..n].text \o t
  <2> DEFINE out == g[1..n]
  <2>1. out \in Printed /\ h[1..(n + 1)] = Printing(d)[out][t]
    BY <1>7
  <2> HIDE DEF out
  <2>2. Printing(d)[out][t].text = IF out.separate THEN out.text \o d \o t ELSE out.text \o t
    BY <1>5, <2>1
  <2>3. OstreamJoin(more, d) = Printing(d)[out][t].text
    BY <1>3, <2>1, Zenon
  <2> QED BY <2>2, <2>3, Zenon DEF out
<1>9. CASE toks = <<>>
  <2>1. 1..n = {}
    BY <1>1, <1>9
  <2>2. g[1..n] = Unprinted
    BY <1>2, <2>1, Zenon DEF Folds
  <2>3. ~g[1..n].separate /\ g[1..n].text = <<>>
    BY <2>2 DEF Unprinted
  <2>4. <<>> \o t = t
    BY ConcatEmptySeq DEF Text
  <2> QED BY <1>8, <1>9, <2>3, <2>4, Zenon
<1>10. CASE toks # <<>>
  <2>1. n \in 1..n /\ n - 1 \in 0..n
    BY <1>1, <1>10
  <2>2. g[1..(n - 1)] \in Printed
    <3>1. \A k \in 0..n : g[1..k] = g[1..k] /\ g[1..k] \in Printed
      <4>1. Len(toks) <= Len(toks) /\ \A k \in 1..Len(toks) : toks[k] = toks[k]
        BY <1>1
      <4> QED BY <1>2, <1>4, <1>6, <4>1, FoldsAgree
    <3> QED BY <2>1, <3>1
  <2>3. g[1..n] = Printing(d)[g[1..(n - 1)]][toks[n]]
    BY <1>2, <2>1, <2>2, Zenon DEF Folds
  <2>4. toks[n] \in Text
    BY <2>1, ElementOfSeq
  <2>5. g[1..n].separate
    BY <1>5, <2>2, <2>3, <2>4, Zenon
  <2> QED BY <1>2, <1>8, <1>10, <2>5, Zenon
<1> QED BY <1>9, <1>10

-----------------------------------------------------------------------------
(* Splitting                                                               *)

(* A string is what is before its first delimiter, that, and the rest.     *)
LEMMA CutAtDelimiter ==
  ASSUME NEW s \in Text, Len(s) < npos, npos \in Nat,
         NEW k, k = Find(s, Delimiter), k # npos
  PROVE  /\ Substr(s, 0, k) \in Text /\ Substr(s, k + 1, npos) \in Text
         /\ Len(Substr(s, k + 1, npos)) < Len(s)
         /\ ~Contains(Substr(s, 0, k), Delimiter)
         /\ s = Substr(s, 0, k) \o <<Delimiter>> \o Substr(s, k + 1, npos)
<1> DEFINE T == {p \in 0..(Len(s) - 1) : s[p + 1] = Delimiter}
           tok == Substr(s, 0, k)
           rest == Substr(s, k + 1, npos)
<1>1. s \in Seq(Chars) /\ Len(s) \in Nat
  BY DEF Text
<1>2. k = First(T) /\ T # {}
  BY Zenon DEF Find, First
<1>3. T \in SUBSET (0..Len(s))
  BY <1>1
<1>4. k \in T /\ \A y \in T : k <= y
  <2> HIDE DEF T
  <2>1. First(T) \in T /\ \A y \in T : First(T) <= y
    BY <1>1, <1>2, <1>3, FirstIs
  <2> QED BY <1>2, <2>1, Zenon
<1>5. k \in 0..(Len(s) - 1) /\ s[k + 1] = Delimiter /\ k \in 0..Len(s) /\ k + 1 \in 0..Len(s)
  BY <1>1, <1>4
<1>6. tok = SubSeq(s, 1, k) /\ rest = SubSeq(s, (k + 1) + 1, Len(s))
  BY <1>1, <1>5, SubstrIs
<1>7. /\ tok \in Seq(Chars) /\ Len(tok) = k /\ \A j \in 1..k : tok[j] = s[j]
  <2>1. k \in Int /\ 1 \in Int /\ 1 <= 1 /\ k <= Len(s) /\ k - 1 + 1 = k /\ (~(1 <= k) => k = 0)
    BY <1>1, <1>5
  <2>2. /\ SubSeq(s, 1, k) \in Seq(Chars)
        /\ Len(SubSeq(s, 1, k)) = IF 1 <= k THEN k - 1 + 1 ELSE 0
        /\ \A j \in 1..(k - 1 + 1) : SubSeq(s, 1, k)[j] = s[1 + j - 1]
    BY <1>1, <2>1, SubSeqIs
  <2>3. \A j \in 1..k : 1 + j - 1 = j
    BY <2>1
  <2> HIDE DEF tok
  <2> QED BY <1>6, <2>1, <2>2, <2>3
<1>8. /\ rest \in Seq(Chars) /\ Len(rest) = Len(s) - (k + 1)
  <2>1. /\ (k + 1) + 1 \in Int /\ Len(s) \in Int /\ 1 <= (k + 1) + 1 /\ Len(s) <= Len(s)
    BY <1>1, <1>5
  <2>2. /\ SubSeq(s, (k + 1) + 1, Len(s)) \in Seq(Chars)
        /\ Len(SubSeq(s, (k + 1) + 1, Len(s))) =
             IF (k + 1) + 1 <= Len(s) THEN Len(s) - ((k + 1) + 1) + 1 ELSE 0
    BY <1>1, <2>1, SubSeqIs
  <2> HIDE DEF rest
  <2> QED BY <1>1, <1>5, <1>6, <2>2
<1> HIDE DEF tok, rest
<1>9. ASSUME NEW j \in 1..k PROVE tok[j] # Delimiter
  <2>1. j - 1 \in 0..(Len(s) - 1) /\ ~(k <= j - 1) /\ (j - 1) + 1 = j
    BY <1>1, <1>5
  <2>2. j - 1 \notin T
    BY <1>4, <2>1
  <2>3. s[j] # Delimiter
    BY <2>1, <2>2
  <2> QED BY <1>7, <2>3
<1>10. s = tok \o <<Delimiter>> \o rest
  <2>1. SubSeq(s, k + 1, k + 1) = <<Delimiter>>
    <3> DEFINE one == SubSeq(s, k + 1, k + 1)
    <3>1. one \in Seq(Chars) /\ Len(one) = 1 /\ one[1] = s[k + 1]
      BY <1>1, <1>5, SubSeqIs
    <3> HIDE DEF one
    <3>2. <<Delimiter>> \in Seq(Chars) /\ Len(<<Delimiter>>) = 1 /\ <<Delimiter>>[1] = Delimiter
      BY SplitAssumption
    <3>3. \A j \in 1..Len(one) : one[j] = <<Delimiter>>[j]
      BY <1>5, <3>1, <3>2
    <3>4. one = <<Delimiter>>
      BY <3>1, <3>2, <3>3, SeqEqual
    <3> QED BY <3>4 DEF one
  <2>2. tok \o SubSeq(s, k + 1, k + 1) = SubSeq(s, 1, k + 1)
    <3>1. 1 \in 1..(Len(s) + 1) /\ k \in (1 - 1)..Len(s) /\ k + 1 \in k..Len(s)
      BY <1>1, <1>5
    <3> QED BY <1>1, <1>6, <3>1, ConcatAdjacentSubSeq
  <2>3. SubSeq(s, 1, k + 1) \o rest = SubSeq(s, 1, Len(s))
    <3>1. 1 \in 1..(Len(s) + 1) /\ k + 1 \in (1 - 1)..Len(s) /\ Len(s) \in (k + 1)..Len(s)
      BY <1>1, <1>5
    <3> QED BY <1>1, <1>6, <3>1, ConcatAdjacentSubSeq
  <2>4. SubSeq(s, 1, Len(s)) = s
    BY <1>1
  <2> QED BY <2>1, <2>2, <2>3, <2>4
<1>11. ~Contains(tok, Delimiter)
  BY <1>7, <1>9 DEF Contains
<1>12. Len(rest) < Len(s)
  BY <1>1, <1>5, <1>8
<1> QED BY <1>7, <1>8, <1>10, <1>11, <1>12 DEF Text, tok, rest

(* Without a delimiter, the last token is the string.                      *)
LEMMA NotCut ==
  ASSUME NEW s \in Text, Len(s) < npos, npos \in Nat, Find(s, Delimiter) = npos
  PROVE  Substr(s, 0, npos) = s /\ ~Contains(s, Delimiter)
<1> DEFINE T == {p \in 0..(Len(s) - 1) : s[p + 1] = Delimiter}
<1>1. s \in Seq(Chars) /\ Len(s) \in Nat
  BY DEF Text
<1>2. T \in SUBSET (0..Len(s))
  BY <1>1
<1>3. T = {}
  <2>1. First(T) = npos
    BY DEF Find
  <2>2. ASSUME T # {} PROVE FALSE
    <3>1. First(T) \in T
      <4> HIDE DEF T
      <4> QED BY <1>1, <1>2, <2>2, FirstIs
    <3> QED BY <1>1, <2>1, <3>1
  <2> QED BY <2>2
<1>4. ASSUME NEW j \in 1..Len(s) PROVE s[j] # Delimiter
  <2>1. j - 1 \in 0..(Len(s) - 1) /\ (j - 1) + 1 = j
    BY <1>1
  <2>2. j - 1 \notin T
    BY <1>3
  <2> QED BY <2>1, <2>2
<1>5. Substr(s, 0, npos) = s
  <2>1. Min({Len(s), 0 + npos}) = Len(s)
    <3>1. 0 + npos \in Int /\ Len(s) \in Int /\ Len(s) <= 0 + npos
      BY <1>1
    <3> QED BY <3>1, MinOfTwo, SMT
  <2>2. Substr(s, 0, npos) = SubSeq(s, 0 + 1, Len(s))
    BY <2>1, Zenon DEF Substr
  <2>3. SubSeq(s, 0 + 1, Len(s)) = s
    BY <1>1
  <2> QED BY <2>2, <2>3
<1> QED BY <1>4, <1>5 DEF Contains

(* How many delimiters a string has.                                       *)
Count(s) == Cardinality({p \in 1..Len(s) : s[p] = Delimiter})

(* A string has the delimiters of its two parts.                           *)
LEMMA CountOfConcat ==
  ASSUME NEW s \in Text, NEW t \in Text
  PROVE  Count(s \o t) = Count(s) + Count(t) /\ Count(s) \in Nat /\ Count(t) \in Nat
<1> DEFINE u == s \o t
           A == {p \in 1..Len(s) : s[p] = Delimiter}
           B == {p \in 1..Len(t) : t[p] = Delimiter}
           C == {p \in (Len(s) + 1)..(Len(s) + Len(t)) : u[p] = Delimiter}
           D == {p \in 1..Len(u) : u[p] = Delimiter}
<1>1. /\ Len(s) \in Nat /\ Len(t) \in Nat
      /\ u \in Seq(Chars) /\ Len(u) = Len(s) + Len(t)
      /\ \A j \in 1..(Len(s) + Len(t)) : u[j] = IF j <= Len(s) THEN s[j] ELSE t[j - Len(s)]
  BY ConcatProperties DEF Text
<1> HIDE DEF u
<1>2. D = A \cup C /\ A \cap C = {}
  BY <1>1
<1>3. IsFiniteSet(A) /\ IsFiniteSet(B) /\ Cardinality(A) \in Nat /\ Cardinality(B) \in Nat
  <2>1. IsFiniteSet(1..Len(s)) /\ IsFiniteSet(1..Len(t))
    BY <1>1, FS_Interval
  <2>2. A \in SUBSET (1..Len(s)) /\ B \in SUBSET (1..Len(t))
    OBVIOUS
  <2> HIDE DEF A, B
  <2> QED BY <2>1, <2>2, FS_Subset, FS_CardinalityType
<1>4. ExistsBijection(B, C)
  <2> DEFINE f == [p \in B |-> p + Len(s)]
  <2>1. \A p \in B : f[p] \in C
    BY <1>1
  <2>2. \A p, q \in B : f[p] = f[q] => p = q
    BY <1>1
  <2>3. \A r \in C : \E p \in B : f[p] = r
    <3> SUFFICES ASSUME NEW r \in C PROVE \E p \in B : f[p] = r
      OBVIOUS
    <3>1. r - Len(s) \in B
      BY <1>1
    <3>2. f[r - Len(s)] = r
      BY <1>1, <3>1
    <3> QED BY <3>1, <3>2
  <2>4. f \in [B -> C]
    BY <2>1
  <2> HIDE DEF f, B, C
  <2>5. f \in Bijection(B, C)
    BY <2>2, <2>3, <2>4, Fun_IsBij
  <2> QED BY <2>5 DEF ExistsBijection
<1>5. IsFiniteSet(C) /\ Cardinality(C) = Cardinality(B)
  <2> HIDE DEF B, C
  <2> QED BY <1>3, <1>4, FS_Bijection
<1>6. Cardinality(A \cup C) = Cardinality(A) + Cardinality(C) - Cardinality({})
  <2> HIDE DEF A, C
  <2> QED BY <1>2, <1>3, <1>5, FS_Union
<1>7. Cardinality({}) = 0
  BY FS_EmptySet
<1>8. Count(u) = Cardinality(D) /\ Count(s) = Cardinality(A) /\ Count(t) = Cardinality(B)
  BY DEF Count
<1> HIDE DEF A, B, C, D
<1>9. Count(u) = Count(s) + Count(t) /\ Count(s) \in Nat /\ Count(t) \in Nat
  BY <1>2, <1>3, <1>5, <1>6, <1>7, <1>8
<1> QED BY <1>9 DEF u

(* None where the string does not contain it, one in itself.               *)
LEMMA CountOfNone ==
  ASSUME NEW s \in Text, ~Contains(s, Delimiter)
  PROVE  Count(s) = 0
<1>1. {p \in 1..Len(s) : s[p] = Delimiter} = {}
  BY DEF Contains
<1> QED BY <1>1, FS_EmptySet, Zenon DEF Count

(* The delimiter has one.                                                  *)
LEMMA CountOfDelimiter == <<Delimiter>> \in Text /\ Count(<<Delimiter>>) = 1
<1>1. Len(<<Delimiter>>) = 1 /\ <<Delimiter>>[1] = Delimiter /\ <<Delimiter>> \in Text
  BY SplitAssumption DEF Text
<1>2. {p \in 1..1 : <<Delimiter>>[p] = Delimiter} = {1}
  BY <1>1
<1> QED BY <1>1, <1>2, FS_Singleton DEF Count

(* A token off the front leaves one delimiter less.                        *)
LEMMA CountAfterCut ==
  ASSUME NEW s \in Text, NEW tok \in Text, NEW rest \in Text,
         ~Contains(tok, Delimiter), s = tok \o <<Delimiter>> \o rest
  PROVE  Count(s) = 1 + Count(rest) /\ Count(rest) \in Nat
<1>1. tok \o <<Delimiter>> \in Text
  BY CountOfDelimiter, ConcatProperties DEF Text
<1>2. Count(tok \o <<Delimiter>>) = Count(tok) + Count(<<Delimiter>>)
  BY CountOfDelimiter, CountOfConcat
<1>3. Count(s) = Count(tok \o <<Delimiter>>) + Count(rest) /\ Count(rest) \in Nat
  BY <1>1, CountOfConcat
<1>4. Count(tok) = 0
  BY CountOfNone
<1> QED BY <1>2, <1>3, <1>4, CountOfDelimiter

-----------------------------------------------------------------------------
(* What is true of the tokens so far and of what is left.                  *)
SplitTypes ==
  /\ input \in Text /\ Len(input) < npos /\ NumTokens \in Nat \ {0}
  /\ string \in Text /\ Len(string) < npos
  /\ i \in 0..NumTokens /\ tokens \in Seq(Text) /\ Len(tokens) = i
  /\ result \in {"none", "tokens", "nullopt"}

TokensSoFar ==
  /\ \A k \in 1..Len(tokens) : ~Contains(tokens[k], Delimiter)
  /\ tokens # <<>> => OstreamJoin(tokens, <<Delimiter>>) = Join(tokens, <<Delimiter>>)

StillLeft == result = "none" =>
  /\ i < NumTokens
  /\ input = IF i = 0 THEN string ELSE Join(tokens, <<Delimiter>>) \o <<Delimiter>> \o string
  /\ Count(input) = i + Count(string) /\ Count(string) \in Nat

Ended == result # "none" =>
  /\ result = "tokens" <=> Count(input) = NumTokens - 1
  /\ result = "tokens" => i = NumTokens /\ Join(tokens, <<Delimiter>>) = input

SplitInv == SplitTypes /\ TokensSoFar /\ StillLeft /\ Ended

(* One more token.                                                         *)
LEMMA OneMoreToken ==
  ASSUME NEW toks \in Seq(Text), NEW t \in Text, ~Contains(t, Delimiter),
         \A k \in 1..Len(toks) : ~Contains(toks[k], Delimiter),
         toks # <<>> => OstreamJoin(toks, <<Delimiter>>) = Join(toks, <<Delimiter>>)
  PROVE  /\ \A k \in 1..(Len(toks) + 1) : ~Contains(Append(toks, t)[k], Delimiter)
         /\ OstreamJoin(Append(toks, t), <<Delimiter>>) = Join(Append(toks, t), <<Delimiter>>)
         /\ Join(Append(toks, t), <<Delimiter>>) =
              IF toks = <<>> THEN t ELSE Join(toks, <<Delimiter>>) \o <<Delimiter>> \o t
         /\ toks # <<>> => Join(toks, <<Delimiter>>) \in Text
<1> DEFINE d == <<Delimiter>>
           more == Append(toks, t)
<1>1. d \in Text
  BY CountOfDelimiter
<1>2. /\ Len(toks) \in Nat /\ more[Len(toks) + 1] = t
      /\ \A k \in 1..Len(toks) : more[k] = toks[k]
  OBVIOUS
<1>3. ASSUME NEW k \in 1..(Len(toks) + 1) PROVE ~Contains(more[k], Delimiter)
  <2> HIDE DEF more
  <2>1. CASE k = Len(toks) + 1
    BY <1>2, <2>1
  <2>2. CASE k \in 1..Len(toks)
    <3>1. more[k] = toks[k] /\ ~Contains(toks[k], Delimiter)
      BY <1>2, <2>2
    <3> QED BY <3>1, Zenon
  <2> QED BY <1>2, <2>1, <2>2
<1> HIDE DEF d
<1>4. OstreamJoin(more, d) = IF toks = <<>> THEN t ELSE OstreamJoin(toks, d) \o d \o t
  BY <1>1, OstreamJoinOfAppend
<1>5. CASE toks = <<>>
  <2>1. more = <<t>>
    BY <1>5
  <2>2. Join(more, d) = t
    BY <1>1, <2>1, JoinOfOne
  <2> QED BY <1>3, <1>4, <1>5, <2>2, Zenon DEF d
<1>6. CASE toks # <<>>
  <2>1. Join(more, d) = Join(toks, d) \o d \o t /\ Join(toks, d) \in Text
    BY <1>1, <1>6, JoinOfAppend
  <2> QED BY <1>3, <1>4, <1>6, <2>1, Zenon DEF d
<1> QED BY <1>5, <1>6

(* The invariant holds in the beginning.                                   *)
LEMMA SplitInvInit == SplitInit => SplitInv
<1> SUFFICES ASSUME SplitInit PROVE SplitInv
  OBVIOUS
<1>1. input \in Text /\ Len(input) < npos
  <2>1. PICK m \in 0..MaxLength : input \in [1..m -> Chars]
    BY DEF SplitInit, BoundedSeq, SeqOf
  <2>2. m \in Nat /\ m < npos
    BY SplitAssumption
  <2>3. input \in Seq(Chars)
    <3>1. m \in Nat
      BY <2>2
    <3>2. Seq(Chars) = UNION {[1..n -> Chars] : n \in Nat}
      BY SeqDef
    <3> QED BY <2>1, <3>1, <3>2, Zenon
  <2>4. Len(input) = m
    BY <2>1, <2>2, <2>3
  <2> QED BY <2>2, <2>3, <2>4 DEF Text
<1>2. NumTokens \in Nat \ {0}
  BY SplitAssumption DEF SplitInit
<1>3. string = input /\ i = 0 /\ tokens = <<>> /\ result = "none"
  BY DEF SplitInit
<1>4. SplitTypes
  BY <1>1, <1>2, <1>3 DEF SplitTypes
<1>5. TokensSoFar
  BY <1>3 DEF TokensSoFar
<1>6. Count(input) \in Nat
  BY <1>1, CountOfConcat
<1>7. StillLeft /\ Ended
  BY <1>2, <1>3, <1>6 DEF StillLeft, Ended
<1> QED BY <1>4, <1>5, <1>7 DEF SplitInv

(* Every step keeps it.                                                    *)
LEMMA SplitInvStep == ASSUME SplitInv, [SplitNext]_splitVars PROVE SplitInv'
<1>1. npos \in Nat
  BY SplitAssumption
<1>2. /\ SplitTypes /\ TokensSoFar /\ StillLeft /\ Ended
  BY DEF SplitInv
<1>3. CASE UNCHANGED splitVars
  BY <1>2, <1>3 DEF splitVars, SplitInv, SplitTypes, TokensSoFar, StillLeft, Ended, Count
<1>4. CASE TooMany
  <2>1. /\ result = "none" /\ offset # npos /\ i = NumTokens - 1 /\ result' = "nullopt"
        /\ UNCHANGED <<input, NumTokens, string, i, tokens>>
    BY <1>4 DEF TooMany
  <2>2. string \in Text /\ Len(string) < npos /\ NumTokens \in Nat \ {0}
    BY <1>2 DEF SplitTypes
  <2>3. Count(string) \in Nat /\ Count(string) # 0
    <3> DEFINE k == offset
    <3>1. k = Find(string, Delimiter)
      BY DEF offset
    <3> HIDE DEF k
    <3>2. k # npos
      BY <2>1 DEF k
    <3>3. /\ Substr(string, 0, k) \in Text /\ Substr(string, k + 1, npos) \in Text
          /\ ~Contains(Substr(string, 0, k), Delimiter)
          /\ string = Substr(string, 0, k) \o <<Delimiter>> \o Substr(string, k + 1, npos)
      BY <1>1, <2>2, <3>1, <3>2, CutAtDelimiter
    <3> DEFINE tok == Substr(string, 0, k)
               rest == Substr(string, k + 1, npos)
    <3>4. /\ tok \in Text /\ rest \in Text /\ ~Contains(tok, Delimiter)
          /\ string = tok \o <<Delimiter>> \o rest
      BY <3>3
    <3> HIDE DEF tok, rest
    <3>5. Count(string) = 1 + Count(rest) /\ Count(rest) \in Nat
      BY <2>2, <3>4, CountAfterCut
    <3> QED BY <3>5
  <2>4. Count(input) # NumTokens - 1
    BY <1>2, <2>1, <2>2, <2>3 DEF StillLeft
  <2>5. SplitTypes' /\ TokensSoFar'
    BY <1>2, <2>1 DEF SplitTypes, TokensSoFar
  <2>6. StillLeft' /\ Ended'
    BY <2>1, <2>4 DEF StillLeft, Ended, Count
  <2> QED BY <2>5, <2>6 DEF SplitInv
<1>5. CASE TooFew
  <2>1. /\ result = "none" /\ offset = npos /\ i # NumTokens - 1 /\ result' = "nullopt"
        /\ UNCHANGED <<input, NumTokens, string, i, tokens>>
    BY <1>5 DEF TooFew
  <2>2. string \in Text /\ Len(string) < npos /\ NumTokens \in Nat \ {0} /\ i \in 0..NumTokens
    BY <1>2 DEF SplitTypes
  <2>3. Count(string) = 0
    <3>1. Find(string, Delimiter) = npos
      BY <2>1 DEF offset
    <3> QED BY <1>1, <2>2, <3>1, NotCut, CountOfNone
  <2>4. Count(input) # NumTokens - 1
    BY <1>2, <2>1, <2>2, <2>3 DEF StillLeft
  <2>5. SplitTypes' /\ TokensSoFar'
    BY <1>2, <2>1 DEF SplitTypes, TokensSoFar
  <2>6. StillLeft' /\ Ended'
    BY <2>1, <2>4 DEF StillLeft, Ended, Count
  <2> QED BY <2>5, <2>6 DEF SplitInv
<1>6. CASE Token
  <2> DEFINE k == offset
             tok == Substr(string, 0, k)
             J(toks) == Join(toks, <<Delimiter>>)
  <2>1. /\ result = "none" /\ (offset = npos <=> i = NumTokens - 1)
        /\ tokens' = Append(tokens, tok) /\ string' = Rest(string) /\ i' = i + 1
        /\ result' = IF i' = NumTokens THEN "tokens" ELSE "none"
        /\ UNCHANGED <<input, NumTokens>>
    BY <1>6 DEF Token
  <2>2. /\ string \in Text /\ Len(string) < npos /\ NumTokens \in Nat \ {0} /\ i \in 0..NumTokens
        /\ tokens \in Seq(Text) /\ Len(tokens) = i /\ input \in Text /\ Len(input) < npos
    BY <1>2 DEF SplitTypes
  <2>3. k = Find(string, Delimiter)
    BY DEF offset
  <2>4. i < NumTokens /\ Count(input) = i + Count(string) /\ Count(string) \in Nat
        /\ input = IF i = 0 THEN string ELSE J(tokens) \o <<Delimiter>> \o string
    BY <1>2, <2>1 DEF StillLeft
  <2>5. (tokens = <<>>) <=> (i = 0)
    BY <2>2
  <2>6. Rest(string) = IF k = npos THEN string ELSE Substr(string, k + 1, npos)
    BY DEF Rest
  <2>7. k # npos <=> i # NumTokens - 1
    BY <2>1
  <2> HIDE DEF k
  <2>8. /\ tok \in Text /\ ~Contains(tok, Delimiter)
        /\ string' \in Text /\ Len(string') < npos
    <3>1. CASE k = npos
      BY <1>1, <2>1, <2>2, <2>3, <2>6, <3>1, NotCut
    <3>2. CASE k # npos
      <4>1. /\ Substr(string, 0, k) \in Text /\ Substr(string, k + 1, npos) \in Text
            /\ Len(Substr(string, k + 1, npos)) < Len(string)
            /\ ~Contains(Substr(string, 0, k), Delimiter)
        BY <1>1, <2>2, <2>3, <3>2, CutAtDelimiter
      <4>2. Len(Substr(string, k + 1, npos)) \in Nat /\ Len(string) \in Nat
        BY <2>2, <4>1 DEF Text
      <4> QED BY <1>1, <2>1, <2>2, <2>6, <3>2, <4>1, <4>2
    <3> QED BY <3>1, <3>2
  <2> HIDE DEF tok
  <2>9. /\ tokens' \in Seq(Text) /\ Len(tokens') = i'
    BY <2>1, <2>2, <2>8
  <2>10. SplitTypes'
    BY <2>1, <2>2, <2>4, <2>8, <2>9 DEF SplitTypes
  <2>11. /\ \A m \in 1..(Len(tokens) + 1) : ~Contains(tokens'[m], Delimiter)
         /\ OstreamJoin(tokens', <<Delimiter>>) = Join(tokens', <<Delimiter>>)
         /\ J(tokens') = IF tokens = <<>> THEN tok ELSE J(tokens) \o <<Delimiter>> \o tok
         /\ tokens # <<>> => J(tokens) \in Text
    BY <1>2, <2>1, <2>2, <2>8, OneMoreToken DEF TokensSoFar
  <2>12. TokensSoFar'
    BY <2>1, <2>2, <2>9, <2>11 DEF TokensSoFar
  <2>13. CASE k = npos
    <3>1. i' = NumTokens /\ result' = "tokens" /\ tok = string
      <4>1. tok = string
        BY <1>1, <2>2, <2>3, <2>13, NotCut DEF tok
      <4> QED BY <2>1, <2>2, <2>7, <2>13, <4>1
    <3>2. Count(string) = 0
      BY <1>1, <2>2, <2>3, <2>13, NotCut, CountOfNone
    <3>3. J(tokens') = input
      BY <2>4, <2>5, <2>11, <3>1, Zenon
    <3>4. Count(input) = NumTokens - 1
      BY <2>2, <2>4, <2>7, <2>13, <3>2
    <3>5. StillLeft' /\ Ended'
      BY <2>1, <3>1, <3>3, <3>4 DEF StillLeft, Ended, Count
    <3> QED BY <2>10, <2>12, <3>5 DEF SplitInv
  <2>14. CASE k # npos
    <3>1. i' # NumTokens /\ i' < NumTokens /\ i' # 0 /\ result' = "none" /\ string' = Substr(string, k + 1, npos)
      BY <2>1, <2>2, <2>4, <2>6, <2>7, <2>14
    <3>2. string = tok \o <<Delimiter>> \o string'
      BY <1>1, <2>2, <2>3, <2>14, <3>1, CutAtDelimiter DEF tok
    <3>3. Count(string) = 1 + Count(string') /\ Count(string') \in Nat
      BY <2>2, <2>8, <3>2, CountAfterCut
    <3>4. input = J(tokens') \o <<Delimiter>> \o string'
      <4>1. CASE i = 0
        BY <2>4, <2>5, <2>11, <3>2, <4>1, Zenon
      <4>2. CASE i # 0
        <5> DEFINE d == <<Delimiter>>
                   a == J(tokens)
        <5>1. a \in Text /\ d \in Text
          BY <2>5, <2>11, <4>2, CountOfDelimiter
        <5>2. input = a \o d \o (tok \o d \o string') /\ J(tokens') = a \o d \o tok
          BY <2>4, <2>5, <2>11, <3>2, <4>2, Zenon
        <5> HIDE DEF a, d
        <5>3. /\ a \o d \in Text /\ tok \o d \in Text /\ a \o d \o tok \in Text
          BY <2>8, <5>1, ConcatProperties DEF Text
        <5>4. (a \o d) \o ((tok \o d) \o string') = ((a \o d) \o (tok \o d)) \o string'
          <6> DEFINE u == a \o d
                     v == tok \o d
                     w == string'
          <6>1. u \in Seq(Chars) /\ v \in Seq(Chars) /\ w \in Seq(Chars)
            BY <2>8, <5>3 DEF Text
          <6> HIDE DEF u, v, w
          <6>2. u \o (v \o w) = (u \o v) \o w
            BY <6>1, ConcatAssociative
          <6> QED BY <6>2, Zenon DEF u, v, w
        <5>5. (a \o d) \o (tok \o d) = ((a \o d) \o tok) \o d
          <6> DEFINE u == a \o d
                     v == tok
                     w == d
          <6>1. u \in Seq(Chars) /\ v \in Seq(Chars) /\ w \in Seq(Chars)
            BY <2>8, <5>1, <5>3 DEF Text
          <6> HIDE DEF u, v, w
          <6>2. u \o (v \o w) = (u \o v) \o w
            BY <6>1, ConcatAssociative
          <6> QED BY <6>2, Zenon DEF u, v, w
        <5> QED BY <5>2, <5>4, <5>5, Zenon DEF d
      <4> QED BY <4>1, <4>2
    <3>5. Count(input) = i' + Count(string')
      BY <2>1, <2>2, <2>4, <3>3
    <3>6. StillLeft' /\ Ended'
      BY <2>1, <3>1, <3>3, <3>4, <3>5 DEF StillLeft, Ended, Count
    <3> QED BY <2>10, <2>12, <3>6 DEF SplitInv
  <2> QED BY <2>13, <2>14
<1> QED BY <1>3, <1>4, <1>5, <1>6 DEF SplitNext

(* split() gives tokens exactly when the string has NumTokens of them, and *)
(* joined again they are the string: for every string and any number of    *)
(* tokens.                                                                 *)
THEOREM SplitsAreExact == SplitSpec => []SplitIsExact
<1>1. ASSUME SplitInv PROVE SplitIsExact
  <2>1. SplitTypes /\ TokensSoFar /\ Ended
    BY <1>1 DEF SplitInv
  <2>2. Delimiters = Count(input)
    BY DEF Delimiters, Count
  <2>3. result # "none" => (result = "tokens" <=> Delimiters = NumTokens - 1)
    BY <2>1, <2>2, Zenon DEF Ended
  <2>4. ASSUME result = "tokens"
        PROVE  /\ Len(tokens) = NumTokens
               /\ \A t \in ToSet(tokens) : ~Contains(t, Delimiter)
               /\ Join(tokens, <<Delimiter>>) = input
               /\ OstreamJoin(tokens, <<Delimiter>>) = input
    <3>1. i = NumTokens /\ Join(tokens, <<Delimiter>>) = input
      BY <2>1, <2>4 DEF Ended
    <3>2. tokens \in Seq(Text) /\ Len(tokens) = NumTokens /\ tokens # <<>>
      BY <2>1, <3>1 DEF SplitTypes
    <3>3. \A t \in ToSet(tokens) : ~Contains(t, Delimiter)
      BY <2>1, <3>2 DEF ToSet, TokensSoFar
    <3> QED BY <2>1, <3>1, <3>2, <3>3 DEF TokensSoFar
  <2> QED BY <2>3, <2>4, Zenon DEF SplitIsExact
<1> QED BY <1>1, SplitInvInit, SplitInvStep, PTL DEF SplitSpec

(* trim() removes blanks at both ends of any string, all of them, and      *)
(* nothing else, whatever npos is: the wrap of npos + 1 is the case of     *)
(* blanks only.                                                            *)
THEOREM TrimsAreExact == SplitSpec => []TrimIsExact
<1>1. SplitInv => TrimIsExact
  BY SplitAssumption, Trimmed DEF SplitInv, SplitTypes, Text
<1> QED BY <1>1, SplitInvInit, SplitInvStep, PTL DEF SplitSpec
=============================================================================
