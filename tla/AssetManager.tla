---------------------------- MODULE AssetManager ----------------------------
(***************************************************************************)
(* AssetManager (src/Parser/src/AssetManager.cpp): the pure translations  *)
(* of an XGT variable name and of a Modbus register address into the      *)
(* address the tag catalogue is keyed by.                                  *)
(* Strings are sequences of ASCII codes.                                   *)
(***************************************************************************)
EXTENDS Integers, Sequences, TLC

IsUpper(c) == c \in 65..90   \* [A-Z]
IsDigit(c) == c \in 48..57   \* [0-9]

(* std::stoi on a string of decimal digits.                               *)
RECURSIVE DigitsValue(_)
DigitsValue(s) ==
    IF s = << >> THEN 0 ELSE 10 * DigitsValue(SubSeq(s, 1, Len(s) - 1)) + (s[Len(s)] - 48)

(* std::to_string of a natural number.                                     *)
RECURSIVE ToDecimal(_)
ToDecimal(n) == IF n < 10 THEN << 48 + n >> ELSE ToDecimal(n \div 10) \o << 48 + (n % 10) >>

(* std::stoi throws out_of_range past INT_MAX: compared as digit strings, *)
(* leading zeros dropped, so the value itself is never formed.            *)
RECURSIVE DropZeros(_)
DropZeros(s) == IF s # << >> /\ s[1] = 48 THEN DropZeros(Tail(s)) ELSE s
IntMaxDigits == << 50, 49, 52, 55, 52, 56, 51, 54, 52, 55 >>   \* "2147483647"
RECURSIVE DigitsGreater(_, _)
DigitsGreater(a, b) ==
    /\ a # << >>
    /\ \/ a[1] > b[1]
       \/ a[1] = b[1] /\ DigitsGreater(Tail(a), Tail(b))
StoiOutOfRange(s) ==
    LET d == DropZeros(s)
    IN  Len(d) > 10 \/ (Len(d) = 10 /\ DigitsGreater(d, IntMaxDigits))

(* The area letters the code accepts and the word-address prefix each    *)
(* becomes: "DB" -> "D", "MB" -> "M", "PB" -> "P".                       *)
XgtAreaPrefix == (<< 68, 66 >> :> 68) @@ (<< 77, 66 >> :> 77) @@ (<< 80, 66 >> :> 80)

(* A variant that keeps the byte address instead of halving it.           *)
translateXgtAddressByteAddr(pduVarNm) ==
    IF pduVarNm = << >> \/ pduVarNm[1] # 37 THEN << >> ELSE
    LET type == SubSeq(pduVarNm, 2, 3)
        numberStr == SubSeq(pduVarNm, 4, Len(pduVarNm))
    IN  IF ~(/\ Len(pduVarNm) >= 4
             /\ \A i \in 2..3 : IsUpper(pduVarNm[i])
             /\ \A i \in 4..Len(pduVarNm) : IsDigit(pduVarNm[i]))
        THEN << >>
        ELSE IF type \notin DOMAIN XgtAreaPrefix \/ StoiOutOfRange(numberStr) THEN << >>
        ELSE << XgtAreaPrefix[type] >> \o ToDecimal(DigitsValue(numberStr))

(* translateXgtAddress: "" unless the name starts with '%' and matches    *)
(* %([A-Z]{2})([0-9]+) as a whole; an area other than DB/MB/PB, or a      *)
(* number std::stoi rejects, also gives ""; otherwise the prefix and the  *)
(* number divided by 2.                                                    *)
translateXgtAddress(pduVarNm) ==
    IF pduVarNm = << >> \/ pduVarNm[1] # 37 THEN << >> ELSE
    LET type == SubSeq(pduVarNm, 2, 3)
        numberStr == SubSeq(pduVarNm, 4, Len(pduVarNm))
    IN  IF ~(/\ Len(pduVarNm) >= 4
             /\ \A i \in 2..3 : IsUpper(pduVarNm[i])
             /\ \A i \in 4..Len(pduVarNm) : IsDigit(pduVarNm[i]))
        THEN << >>
        ELSE IF type \notin DOMAIN XgtAreaPrefix \/ StoiOutOfRange(numberStr) THEN << >>
        ELSE << XgtAreaPrefix[type] >> \o ToDecimal(DigitsValue(numberStr) \div 2)

(* The offset translateModbusAddress adds for each function code.         *)
ModbusOffset == (0 :> 1) @@ (1 :> 10001) @@ (2 :> 10001) @@ (3 :> 300001) @@ (4 :> 400001)

(* A variant with zero-based offsets (0, 10000, 300000, 400000).          *)
translateModbusAddressZeroBased(fc, addr) ==
    IF fc \in DOMAIN ModbusOffset THEN ToDecimal(ModbusOffset[fc] - 1 + addr)
    ELSE ToDecimal(addr)

(* translateModbusAddress: the decimal of offset + addr, or of the raw    *)
(* address for a function code with no offset.  Its callers always pass   *)
(* std::to_string of the uint8_t function code, so the empty-string and   *)
(* std::stoi exception branches are never taken.                          *)
translateModbusAddress(fc, addr) ==
    IF fc \in DOMAIN ModbusOffset THEN ToDecimal(ModbusOffset[fc] + addr)
    ELSE ToDecimal(addr)

====
