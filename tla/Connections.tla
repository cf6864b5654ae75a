---------------------------- MODULE Connections ----------------------------
(***************************************************************************)
(* The addresses of /proc/net (src/carto/src/connections.c).  A word of an *)
(* address is printed as eight digits, most significant first; it is read  *)
(* back two digits at a time into an integer of four bytes.  The words of  *)
(* an IPv6 address are not cleared first: the block comes from malloc with *)
(* any content, which four shifts must have pushed out.                    *)
(*                                                                         *)
(* Base is 16 in the code; a smaller one keeps the width of a word (four   *)
(* pairs of digits) with fewer values.                                     *)
(***************************************************************************)
EXTENDS Integers, Sequences

CONSTANTS Base,     \* the base digits are printed in
          Words     \* words of an IPv6 address: 4 in the code

ASSUME DigitsAssumption == Base \in Nat \ {0, 1} /\ Words \in Nat \ {0}

Byte == Base * Base          \* the values of a byte
Word == 0..(Byte * Byte * Byte * Byte - 1)

\* word <<= 8; word += strtol(the i-th pair of digits): modulo the width.
shift_in(word, hex, i) ==
    (word * Byte + hex[2 * i - 1] * Base + hex[2 * i])
        % (Byte * Byte * Byte * Byte)

\* FAULTY read_word: one byte too few.
read_word_short(content, hex) ==
    shift_in(shift_in(shift_in(content, hex, 1), hex, 2), hex, 3)

\* The loop over the four pairs of digits of one word that held content.
read_word(content, hex) ==
    shift_in(shift_in(shift_in(shift_in(content, hex, 1), hex, 2), hex, 3), hex, 4)

\* s_addr is set to 0 before the loop, whatever it held.
hex_to_ipv4(hex, content) == << read_word(0, hex) >>

hex_to_ipv6(hex, content) ==
    [i \in 1..Words |-> read_word(content[i], SubSeq(hex, 8 * i - 7, 8 * i))]

\* The four files get_connections reads, in order.
Sources == << [prot |-> "TCP", addr_type |-> "AF_INET"],
              [prot |-> "TCP", addr_type |-> "AF_INET6"],
              [prot |-> "UDP", addr_type |-> "AF_INET"],
              [prot |-> "UDP", addr_type |-> "AF_INET6"] >>

\* The connection made of one line of a file: from and to are the digits of
\* the two addresses, content what the block of the struct held.  Every line
\* the kernel prints matches the format of the fscanf; ports, state and uid
\* are left out.
connection(source, from, to, content) ==
    LET hex_to_ip(hex) ==
            IF source.addr_type = "AF_INET" THEN hex_to_ipv4(hex, content)
                                            ELSE hex_to_ipv6(hex, content)
    IN  [prot |-> source.prot, addr_type |-> source.addr_type,
         s_addr |-> hex_to_ip(from), d_addr |-> hex_to_ip(to)]

-----------------------------------------------------------------------------
\* What the digits of an address say, word by word: the value the kernel
\* printed.
ValueOf(digits) ==
    LET value[n \in 0..Len(digits)] ==
            IF n = 0 THEN 0 ELSE value[n - 1] * Base + digits[n]
    IN  value[Len(digits)]

Printed(hex) == [i \in 1..(Len(hex) \div 8) |-> ValueOf(SubSeq(hex, 8 * i - 7, 8 * i))]
=============================================================================
