----------------------------- MODULE MCSampling -----------------------------
(* Keys of degrees 2 to 16 for q = 17; the reals modulo 8191, where 32     *)
(* divides p + 1 and 64 + 64*i is a primitive root of order 8.             *)
EXTENDS Sampling

A(s) == [i \in 0 .. Len(s) - 1 |-> s[i + 1]] @@ << >>
K(lg, a, b, c, d) == [logn |-> lg, f |-> A(a), g |-> A(b), F |-> A(c), G |-> A(d)]

CRoot == [re |-> 5114, im |-> 7544]

CKeys == {
  K(1, <<3, 3>>, <<2, 1>>, <<1, -2>>, <<3, -4>>),
  K(1, <<-3, -3>>, <<-2, -1>>, <<-1, 2>>, <<-3, 4>>),
  K(2, <<0, 1, 0, 0>>, <<-1, 0, 0, 1>>, <<5, 5, -2, 2>>, <<-3, 0, 3, -7>>),
  K(2, <<1, -1, -1, 0>>, <<1, -1, 0, 0>>, <<-4, 1, 0, -3>>, <<2, 3, 4, 4>>),
  K(3, <<-1, 0, 0, 0, 0, 1, 0, 0>>, <<0, 0, 1, -1, 0, 1, 0, 0>>,
       <<-3, 1, 3, 4, 0, -4, 3, 1>>, <<-3, -1, -1, -3, -1, -1, 2, 0>>),
  K(3, <<0, 0, 0, 1, 0, 1, 0, 0>>, <<1, -1, -1, 0, 0, -1, 1, 0>>,
       <<-3, -2, 2, -1, 1, -3, -3, -2>>, <<0, 1, 2, -3, -2, -3, 1, 0>>),
  K(4, <<0, 1, 0, 1, 0, 0, 0, 0, 0, 0, 0, -1, 0, 0, 1, 0>>,
       <<1, 0, 0, 0, 0, 0, 1, 1, 0, 0, 0, 0, 1, 0, 0, -1>>,
       <<-2, -2, 0, -1, 2, 0, 1, 1, -1, 3, 1, -3, 0, 1, 1, -2>>,
       <<1, 0, -1, 0, 0, 2, 0, -1, 1, 1, -1, 0, 0, -2, 1, -2>>),
  K(4, <<0, -1, -1, 0, 0, 0, 0, 0, 0, 0, 0, 1, 0, 0, -1, 0>>,
       <<1, 0, 0, 0, -1, 0, 0, 0, -1, 1, 1, 0, 0, 0, 0, 0>>,
       <<-1, 1, 0, -1, 1, 0, 2, 3, -1, 0, 0, 0, -1, 1, 0, -1>>,
       <<0, -2, 1, -1, -1, -3, 1, 0, 0, 0, 1, 2, 0, 0, 3, 2>>)}

CMessages == {A(<<3, 16, 0, 9, 11, 5, 1, 8, 2, 2, 14, 7, 0, 13, 6, 10>>),
              A(<<0, 4, 12, 2, 15, 7, 10, 6, 1, 16, 3, 5, 9, 0, 8, 11>>),
              Array(16, LAMBDA u : 0)}

CTapes == {<<1, -1, 0, 2, -2, 1, 0, 1, -1, 0, 3, -3, 0, 1, -1, 2,
             0, 1, 1, -1, 0, 0, 2, -1, 1, -2, 0, 0, 1, 3, -1, 0>>,
           <<0, 0, 1, 0, -1, 0, 0, 0, 1, 0, 0, -1, 0, 0, 0, 0,
             0, -1, 0, 0, 0, 0, 1, 0, 0, 0, 0, 0, -1, 0, 0, 0>>,
           <<-2, 5, 3, -4, 1, -1, 2, 0, -3, 1, 0, 2, -1, 4, -2, 1,
             3, -3, 0, 2, 2, -5, 1, 0, 4, -1, -2, 3, 0, 1, -4, 2>>}

(* Indexed by logn.                                                        *)
CSigma == <<5, 7, 11, 13>>
CBound == <<120, 250, 500, 1000>>
=============================================================================
