---------------------------- MODULE CheckDigits ----------------------------
(***************************************************************************)
(* The check digits that tell a misread number from a good one, before any *)
(* source is asked: CPF and CNPJ (taxpayer-id.ts) and the line of a bill   *)
(* of a utility (febraban.ts).  A number is printed with its check digits  *)
(* and read with one digit wrong, or with two neighbours swapped.          *)
(***************************************************************************)
EXTENDS Naturals, FiniteSetsExt, SequencesExt

CONSTANT Numbers    \* what is printed: [kind, digits], without check digits

VARIABLES printed, read, slip

digitVars == <<printed, read, slip>>

Digits == 0..9
SumOf(term(_), S) == MapThenSumSet(term, S)

\* cpfCheckDigit.
CpfDigitFrom11(d, length, first) ==
  ((SumOf(LAMBDA i : d[i] * (12 - i), 1..length) * 10) % 11) % 10
CpfDigit(d, length, first) ==
  ((SumOf(LAMBDA i : d[i] * (first + 1 - i), 1..length) * 10) % 11) % 10

\* isValidCpf.
AllSame(d) == \A i \in DOMAIN d : d[i] = d[1]
IsValidCpf(d) ==
  /\ Len(d) = 11 /\ ~ AllSame(d)
  /\ CpfDigit(d, 9, 10) = d[10]
  /\ CpfDigit(d, 10, 11) = d[11]

\* cnpjCheckDigit and isValidCnpj.
FirstWeights == <<5, 4, 3, 2, 9, 8, 7, 6, 5, 4, 3, 2>>
SecondWeights == <<6>> \o FirstWeights
CnpjDigit(d, weights) ==
  LET rest == SumOf(LAMBDA i : d[i] * weights[i], DOMAIN weights) % 11
  IN  IF rest < 2 THEN 0 ELSE 11 - rest
IsValidCnpj(d) ==
  /\ Len(d) = 14 /\ ~ AllSame(d)
  /\ CnpjDigit(d, FirstWeights) = d[13]
  /\ CnpjDigit(d, SecondWeights) = d[14]

\* mod10CheckDigit: from the right, the weights are 2, 1, 2, ...
Unfolded(n) == n
Folded(n) == IF n > 9 THEN n - 9 ELSE n
Mod10CheckDigit(d) ==
  (10 - (SumOf(LAMBDA i : Folded(d[i] * (IF (Len(d) - i) % 2 = 0 THEN 2 ELSE 1)),
               DOMAIN d) % 10)) % 10

\* mod11CheckDigit: from the right, the weights are 2 to 9 and again.
Mod11CheckDigit(d) ==
  LET dv == 11 - (SumOf(LAMBDA i : d[i] * (2 + ((Len(d) - i) % 8)), DOMAIN d) % 11)
  IN  IF dv >= 10 THEN 0 ELSE dv

\* parseLinhaDigitavelConvenio: four blocks of eleven digits, each with its check digit,
\* the fourth of all the rest; the third tells how the check digits are made.
CheckDigitOf(valueId, d) ==
  IF valueId \in {6, 7} THEN Mod10CheckDigit(d) ELSE Mod11CheckDigit(d)
Block(line, b) == SubSeq(line, 12 * b - 11, 12 * b - 1)
Barcode(line) == FlattenSeq([b \in 1..4 |-> Block(line, b)])
IsValidLine(line) ==
  /\ Len(line) = 48 /\ line[1] = 8 /\ line[3] \in 6..9
  /\ \A b \in 1..4 : CheckDigitOf(line[3], Block(line, b)) = line[12 * b]
  /\ CheckDigitOf(line[3], RemoveAt(Barcode(line), 4)) = line[4]

IsValid(kind, d) ==
  CASE kind = "cpf" -> IsValidCpf(d)
    [] kind = "cnpj" -> IsValidCnpj(d)
    [] kind = "line" -> IsValidLine(d)
-----------------------------------------------------------------------------
\* The issuer prints the check digits.
Printed(number) ==
  LET d == number.digits
  IN  CASE number.kind = "cpf" ->
             LET one == Append(d, CpfDigit(d, 9, 10))
             IN  Append(one, CpfDigit(one, 10, 11))
        [] number.kind = "cnpj" ->
             LET one == Append(d, CnpjDigit(d, FirstWeights))
             IN  Append(one, CnpjDigit(one, SecondWeights))
        [] number.kind = "line" ->
             LET bars == InsertAt(d, 4, CheckDigitOf(d[3], d))
                 block(b) == SubSeq(bars, 11 * b - 10, 11 * b)
             IN  FlattenSeq([b \in 1..4 |->
                   Append(block(b), CheckDigitOf(d[3], block(b)))])

DigitsInit ==
  /\ \E n \in Numbers : printed = [kind |-> n.kind, digits |-> Printed(n)]
  /\ read = printed.digits
  /\ slip = <<>>

Misread(i, digit) ==
  /\ slip = <<>> /\ digit # read[i]
  /\ read' = [read EXCEPT ![i] = digit]
  /\ slip' = <<i>>
  /\ UNCHANGED printed

Swap(i) ==
  /\ slip = <<>> /\ read[i] # read[i + 1]
  /\ read' = [read EXCEPT ![i] = read[i + 1], ![i + 1] = read[i]]
  /\ slip' = <<i, i + 1>>
  /\ UNCHANGED printed

DigitsNext ==
  \/ \E i \in DOMAIN read, digit \in Digits : Misread(i, digit)
  \/ \E i \in DOMAIN read \ {Len(read)} : Swap(i)

DigitsSpec == DigitsInit /\ [][DigitsNext]_digitVars
-----------------------------------------------------------------------------
\* A number printed by its issuer is valid as it is.
IntactIsValid == slip = <<>> => IsValid(printed.kind, read)

\* One misread digit of a CPF or a CNPJ passes only where both weights of the position
\* are blind to it, as remainders 0 and 1 give the same check digit: where one is eleven
\* or they add up to eleven.  In a CPF those are the first and the sixth digit.
OneDigitIsCaught ==
  /\ Len(slip) = 1 /\ printed.kind \in {"cpf", "cnpj"} /\ IsValid(printed.kind, read)
  => CASE printed.kind = "cpf" -> slip[1] \in {1, 6}
       [] printed.kind = "cnpj" ->
            /\ slip[1] \in DOMAIN FirstWeights
            /\ FirstWeights[slip[1]] + SecondWeights[slip[1]] = 11

\* Of a line checked by tens, no misread digit passes, and no swap but of a 0 and a 9.
LineIsCaught ==
  /\ slip # <<>> /\ printed.kind = "line" /\ printed.digits[3] \in {6, 7}
  /\ IsValid("line", read)
  => Len(slip) = 2 /\ {printed.digits[i] : i \in ToSet(slip)} = {0, 9}

DigitsSafe == IntactIsValid /\ OneDigitIsCaught /\ LineIsCaught
=============================================================================
