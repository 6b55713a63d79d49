------------------------------ MODULE MCKeyGen ------------------------------
(* A small instance of KeyGen: words of 15 bits, q = 17, degrees 4 and 8.  *)
EXTENDS KeyGen

A(s) == [i \in 0 .. Cardinality(DOMAIN s) - 1 |-> s[i + 1]] @@ << >>

CPrime == PrimeTable

(* Indexed by depth.                                                       *)
CSmall == (0 :> 1) @@ <<1, 1, 2>>
CLarge == (0 :> 2) @@ <<2, 2, 2>>
CMin   == (0 :> 1) @@ <<2, 4, 9>>
CMax   == (0 :> 3) @@ <<5, 8, 12>>

(* Indexed by logn.                                                        *)
CfgBits == <<3, 3, 3>>
CFGBits == <<4, 4, 4>>
CNorm   == <<20, 40, 64>>

CTargets == {A(<<3, 16, 0, 9, 11, 5, 1, 8>>), A(<<0, 4, 12, 2, 15, 7, 10, 6>>)}
COffsets == {A(<<0, 0, 0, 0, 0, 0, 0, 0>>), A(<<1, -1, 0, 2, 0, 1, -1, 0>>)}

CDraws == {
  <<2, A(<<0, -1, 1, -1>>), A(<<1, 1, -1, 1>>)>>,
  <<2, A(<<-1, 1, 1, 0>>), A(<<-1, 0, 2, 1>>)>>,
  <<2, A(<<1, 0, 1, -1>>), A(<<0, 1, 1, 0>>)>>,
  <<2, A(<<1, -1, 1, -1>>), A(<<0, 1, 0, 0>>)>>,
  <<2, A(<<0, -1, 0, 0>>), A(<<1, 0, 0, 1>>)>>,
  <<2, A(<<0, -1, 1, 0>>), A(<<0, 1, -1, 1>>)>>,
  <<2, A(<<0, 1, -1, 0>>), A(<<0, 0, -1, 0>>)>>,
  <<2, A(<<0, 1, 0, 0>>), A(<<-1, 0, 0, 1>>)>>,
  <<2, A(<<-1, 0, -1, 1>>), A(<<0, -1, 0, 1>>)>>,
  <<2, A(<<1, 0, 1, 0>>), A(<<-1, 1, 0, 1>>)>>,
  <<2, A(<<0, 0, 0, 1>>), A(<<0, 0, -1, -1>>)>>,
  <<2, A(<<0, 1, 0, 1>>), A(<<-1, 1, 0, 1>>)>>,
  <<2, A(<<-1, 0, 1, 0>>), A(<<-1, 0, 0, 0>>)>>,
  <<2, A(<<0, 0, 1, 0>>), A(<<0, -1, 1, 0>>)>>,
  <<2, A(<<-1, 0, -1, 1>>), A(<<-1, 1, 0, 0>>)>>,
  <<2, A(<<0, -1, 1, 0>>), A(<<-1, -1, 0, -1>>)>>,
  <<2, A(<<1, 0, 0, 1>>), A(<<0, -1, 0, 0>>)>>,
  <<2, A(<<-1, -1, -1, 0>>), A(<<0, 1, 1, 0>>)>>,
  <<2, A(<<1, -1, -1, 0>>), A(<<1, -1, 0, 0>>)>>,
  <<2, A(<<1, 0, 0, 0>>), A(<<0, -1, 0, -1>>)>>,
  <<2, A(<<-1, 0, -1, -1>>), A(<<-1, -1, 0, 0>>)>>,
  <<3, A(<<0, 0, 0, 0, 0, -1, 1, 0>>), A(<<-1, 0, 1, 1, 1, 0, -1, 0>>)>>,
  <<3, A(<<0, 0, 0, 0, 0, 0, 0, 1>>), A(<<-1, -1, 1, 0, 0, 0, 1, 0>>)>>,
  <<3, A(<<0, -1, 0, -1, 0, -1, 1, 0>>), A(<<1, 1, 1, 0, 0, 1, 0, 1>>)>>,
  <<3, A(<<0, -1, 1, 1, -1, 0, 0, 0>>), A(<<1, -1, 0, 1, -1, -1, 0, 0>>)>>,
  <<3, A(<<0, 0, 1, 0, 0, -1, 1, 1>>), A(<<1, 0, -1, 1, 0, 0, -1, 1>>)>>,
  <<3, A(<<0, 1, 0, 0, -1, -1, 0, 0>>), A(<<1, 0, 0, 1, 0, 1, 0, 1>>)>>,
  <<3, A(<<-1, 0, 0, 0, 0, 0, 1, 1>>), A(<<0, 1, 0, 0, 0, 0, 0, -1>>)>>,
  <<3, A(<<0, 1, 0, 1, -1, 0, -1, 0>>), A(<<0, -1, 0, -1, 0, 1, -1, -1>>)>>,
  <<3, A(<<0, 0, 0, 1, 1, -1, 0, 1>>), A(<<-1, 0, 0, 0, 0, 1, 0, -1>>)>>,
  <<3, A(<<0, 0, 0, -1, 1, 0, 1, 1>>), A(<<0, 1, -1, -1, 0, -1, 1, 0>>)>>,
  <<3, A(<<0, 1, 0, -1, 0, 0, 0, 0>>), A(<<0, 1, 0, 0, 1, 0, 1, 0>>)>>,
  <<3, A(<<0, 0, 0, 1, 0, 1, 0, 0>>), A(<<1, -1, -1, 0, 0, -1, 1, 0>>)>>,
  <<3, A(<<-1, 0, 0, 0, 0, 1, 0, 0>>), A(<<0, 0, 1, -1, 0, 1, 0, 0>>)>>,
  <<3, A(<<0, 0, 1, 0, -1, -1, 0, 0>>), A(<<-1, 0, 0, 0, 0, 1, -1, -1>>)>>,
  <<3, A(<<0, -1, -1, 0, 0, 0, 1, 0>>), A(<<-1, 0, 0, 0, 1, 0, 1, -1>>)>>,
  <<3, A(<<0, -1, 0, -1, 0, 1, 0, 0>>), A(<<-1, 0, 0, 1, 0, 0, 0, 0>>)>>,
  <<3, A(<<0, 1, 1, 1, -1, 0, 0, 0>>), A(<<1, -1, -1, -1, -1, 0, 0, 0>>)>>,
  <<3, A(<<0, 1, 0, 1, 0, -1, 0, 0>>), A(<<0, 0, 1, 1, 0, 1, 0, 1>>)>>,
  <<3, A(<<0, 0, 0, -1, 0, -1, 1, 1>>), A(<<0, 1, -1, 0, 1, 0, 0, 0>>)>>,
  <<3, A(<<0, -1, 0, 0, 1, -1, 0, 1>>), A(<<0, -1, 0, -1, 0, 1, 1, -1>>)>>,
  <<2, A(<<0, 0, 0, 1>>), A(<<0, -1, 1, -1>>)>>,
  <<2, A(<<0, 0, -1, 0>>), A(<<1, 0, 0, 0>>)>>}
=============================================================================
