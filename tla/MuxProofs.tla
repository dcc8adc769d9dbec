------------------------------ MODULE MuxProofs ------------------------------
(***************************************************************************)
(* Proofs about Mux, for every finite set of connections, every number of   *)
(* chunks and of reads a chunk takes, every length of the way to the peer   *)
(* and every limit of the client.  Like the properties, they are about what *)
(* happens before a chunk is torn.                                         *)
(***************************************************************************)
EXTENDS Mux, FiniteSetTheorems, TLAPS

-----------------------------------------------------------------------------
(* The types *)

Frames == [id : Nat, status : {"New", "Keep", "End"}, conn : Conns \cup {None}, num : Nat, error : BOOLEAN]

Receivers == [pc : {"header", "copy", "reply", "lost", "ended"}, conn : Conns \cup {None}, id : Nat,
              chunk : {<<>>} \cup ((Conns \cup {None}) \X Nat), left : Nat]

MuxTypes ==
  /\ count \in 0 .. Cardinality(Conns)
  /\ table \in [Sides -> [Ids -> Conns \cup {None}]]
  /\ closed \in [Sides -> BOOLEAN] /\ id \in [Conns -> Ids \cup {0}]
  /\ sender \in [Sides -> [Conns -> States]]
  /\ sent \in [Sides -> [Conns -> Nat]] /\ waiting \in [Sides -> [Conns -> Nat]]
  /\ \A x \in Sides, c \in Conns : sent[x][c] + waiting[x][c] <= MaxChunks[x][c]
  /\ input \in [Sides -> [Conns -> {"open", "closed", "errord"}]]
  /\ output \in [Sides -> [Conns -> {"open", "closed", "errord"}]]
  /\ got \in [Sides -> [Conns -> Seq(Conns \X Nat)]]
  /\ link \in [Sides -> Seq(Frames)]
  /\ receiver \in [Sides -> Receivers] /\ \A x \in Sides : receiver[x].pc = "copy" => receiver[x].conn \in Conns
  /\ linkUp \in BOOLEAN /\ done \in BOOLEAN /\ monitor \in {"wait", "idle", "closing", "over"}

-----------------------------------------------------------------------------
(* Sessions *)

\* An id is given out once, ...
Numbered ==
  /\ count = Cardinality({c \in Conns : id[c] # 0})
  /\ \A c \in Conns : id[c] <= count /\ (id[c] = 0 <=> sender["client"][c] \in {"none", "dispatching"})
  /\ \A c, d \in Conns : id[c] = id[d] /\ id[c] # 0 => c = d

\* ... and a session is found under its own.
Placed ==
  /\ \A x \in Sides, i \in Ids : table[x][i] # None => id[table[x][i]] = i
  /\ \A c \in Conns, i \in Ids : table["server"][i] = c => sender["server"][c] # "none"

-----------------------------------------------------------------------------
(* Frames on their way *)

isData(f, c) == f.status \in {"New", "Keep"} /\ f.conn = c /\ f.num > 0
isNew(f, c)  == f.status = "New" /\ f.conn = c
isEnd(f, i)  == f.status = "End" /\ f.id = i

\* Where the data of c, and its New frame, are among the frames w.
data(w, c) == {i \in 1 .. Len(w) : isData(w[i], c)}
news(w, c) == {i \in 1 .. Len(w) : isNew(w[i], c)}

\* Chunks of c that have reached x.
copying(x, c) == receiver[x].pc = "copy" /\ receiver[x].conn = c
arrived(x, c) == Len(got[x][c]) + IF copying(x, c) THEN 1 ELSE 0

\* A frame names the connection it is of, and New comes first, once, from a
\* client whose server does not know the connection yet.
Marked(x, f) ==
  /\ f.status # "End" => f.conn \in Conns /\ f.id = id[f.conn] /\ f.id \in Ids
  /\ f.status = "Keep" => f.num > 0
  /\ f.status = "New" => x = "client" /\ sender["server"][f.conn] = "none" /\ f.num \in {0, 1}

Early == {"none", "dispatching", "allocated", "first"}

Begun(c) ==
  /\ sender["client"][c] \in Early =>
       /\ sent["client"][c] = 0 /\ sender["server"][c] = "none"
       /\ data(link["client"], c) = {} /\ news(link["client"], c) = {}
  /\ sender["server"][c] = "none" =>
       /\ sent["server"][c] = 0 /\ data(link["server"], c) = {}
       /\ \A x \in Sides : got[x][c] = <<>> /\ ~copying(x, c)
  /\ \A j \in news(link["client"], c), i \in data(link["client"], c) : j <= i
  /\ \A i, j \in news(link["client"], c) : i = j

Framed ==
  /\ ~linkUp => \A x \in Sides : link[x] = <<>>
  /\ \A x \in Sides : \A i \in 1 .. Len(link[x]) : Marked(x, link[x][i])
  /\ \A c \in Conns : Begun(c)

\* The data that comes to x for c gets there.
connected(x, c) ==
  /\ linkUp /\ output[x][c] = "open"
  /\ \/ ~closed[x] /\ id[c] # 0 /\ table[x][id[c]] = c
     \/ x = "server" /\ news(link["client"], c) # {}

\* The chunks among w are those from m + 1 to n, in order.
stretch(w, c, m, n) ==
  /\ m <= n
  /\ \A i \in data(w, c) : m < w[i].num /\ w[i].num <= n
  /\ \A k \in Nat : m < k /\ k <= n => \E i \in data(w, c) : w[i].num = k
  /\ \A i, j \in data(w, c) : i < j => w[i].num < w[j].num

Flowing ==
  \A x \in Sides, c \in Conns :
    connected(x, c) => stretch(link[Peer(x)], c, arrived(x, c), sent[Peer(x)][c])

\* What arrived is what was sent, and the chunk in hand comes next.
Arrived ==
  \A x \in Sides, c \in Conns :
    /\ Len(got[x][c]) <= sent[Peer(x)][c]
    /\ \A k \in 1 .. Len(got[x][c]) : got[x][c][k] = <<c, k>>
    /\ copying(x, c) /\ output[x][c] = "open" =>
         receiver[x].chunk = <<c, Len(got[x][c]) + 1>> /\ Len(got[x][c]) < sent[Peer(x)][c]

Ended ==
  /\ closed["server"] => receiver["server"].pc = "ended"
  /\ closed["client"] => done

MuxInv == MuxTypes /\ Numbered /\ Placed /\ Framed /\ Flowing /\ Arrived /\ Ended

-----------------------------------------------------------------------------
(* Idle *)

IdleCloses ==
  closed["client"] /\ receiver["client"].pc # "ended" /\ monitor = "wait" =>
    \A c \in Conns : sender["client"][c] \in {"none", "dispatching"} \/ output["client"][c] # "open"

IdleInv ==
  /\ monitor = "idle" => ~closed["client"]
  /\ \A c \in Conns : ~closed["client"] /\ Alive("client", c) /\ output["client"][c] = "open" => table["client"][id[c]] = c
  /\ IdleCloses

-----------------------------------------------------------------------------
(* Clean ends *)

over(c) == sender["server"][c] \in {"close", "gone"}
asking(c) == linkUp /\ ~done /\ sender["client"][c] \in {"allocated", "first", "copy"}

\* Where the End frames of the session i are among the frames w.
ends(w, i) == {j \in 1 .. Len(w) : isEnd(w[j], i)}

\* Ids on their way were given out, and a connection without one is untouched.
Dated ==
  /\ \A x \in Sides : receiver[x].id <= count /\ \A j \in 1 .. Len(link[x]) : link[x][j].id <= count
  /\ \A c \in Conns : id[c] = 0 => output["client"][c] = "open"

\* The server ends a session when its input is over, and tells so last; nobody
\* else tells the end of a connection that still asks.
Answered(c) ==
  /\ sender["server"][c] # "error"
  /\ linkUp /\ sender["server"][c] \in {"end", "close", "gone"} => InputOver("server", c)

Told(c) ==
  /\ \A x \in Sides : receiver[x].pc = "reply" /\ receiver[x].id = id[c] => over(c)
  /\ \A x \in Sides : ends(link[x], id[c]) # {} => over(c)
  /\ \A i \in ends(link["server"], id[c]), j \in data(link["server"], c) : j < i
  /\ \A i \in ends(link["server"], id[c]) : ~link["server"][i].error

\* A connection that asks is in both tables, or on its way to the server's,
\* until the server's side is over.
Kept(c) ==
  /\ table["client"][id[c]] # c => over(c)
  /\ sender["server"][c] # "none" /\ table["server"][id[c]] # c => over(c)
  /\ sender["client"][c] = "copy" /\ sender["server"][c] = "none" => news(link["client"], c) # {}

Complete(c) ==
  output["client"][c] = "closed" /\ input["server"][c] # "errord" =>
    over(c) /\ waiting["server"][c] = 0 /\ Len(got["client"][c]) = sent["server"][c]

EndInv ==
  /\ Dated
  /\ \A c \in Conns : Answered(c) /\ (asking(c) => Told(c) /\ Kept(c) /\ Complete(c))

-----------------------------------------------------------------------------
(* Lemmas about frames *)

LEMMA SidesAndPeers ==
  /\ Sides = {"client", "server"} /\ "client" # "server"
  /\ Peer("client") = "server" /\ Peer("server") = "client"
  /\ \A x \in Sides : Peer(x) \in Sides /\ Peer(Peer(x)) = x /\ Peer(x) # x
  BY DEF Sides, Peer

\* What a frame at the end of the others adds.
LEMMA AppendFrames ==
  ASSUME NEW w \in Seq(Frames), NEW f \in Frames, NEW v, v = Append(w, f)
  PROVE  /\ v \in Seq(Frames) /\ Len(v) = Len(w) + 1 /\ Len(w) \in Nat
         /\ \A i \in 1 .. Len(w) : v[i] = w[i]
         /\ v[Len(w) + 1] = f
<1>1. v \in Seq(Frames) /\ Len(v) = Len(w) + 1 /\ Len(w) \in Nat
  OBVIOUS
<1>2. \A i \in 1 .. Len(w) : v[i] = w[i]
  OBVIOUS
<1>3. v[Len(w) + 1] = f
  OBVIOUS
<1> QED
  BY <1>1, <1>2, <1>3

LEMMA AppendData ==
  ASSUME NEW w \in Seq(Frames), NEW f \in Frames, NEW v, v = Append(w, f)
  PROVE  \A c, j : j \in data(v, c) <=> j \in data(w, c) \/ (j = Len(w) + 1 /\ isData(f, c))
<1> DEFINE l == Len(w)
<1>1. Len(v) = l+1 /\ l \in Nat
  OBVIOUS
<1>2. \A i \in 1 .. l : v[i] = w[i]
  OBVIOUS
<1>3. v[l + 1] = f
  OBVIOUS
<1> HIDE DEF l
<1>4. \A j : j \in 1 .. l + 1 <=> j \in 1 .. l \/ j = l + 1
  BY <1>1
<1> SUFFICES ASSUME NEW c, NEW j PROVE j \in data(v, c) <=> j \in data(w, c) \/ (j = Len(w) + 1 /\ isData(f, c))
  OBVIOUS
<1>6. j \in data(v, c) <=> j \in 1 .. l+1 /\ isData(v[j], c)
  BY <1>1 DEF data
<1>7. j \in data(w, c) <=> j \in 1 .. l /\ isData(w[j], c)
  BY <1>1 DEF data, l
<1>8. CASE j = l+1
  <2>1. j \notin 1 .. l
    BY <1>8, <1>1
  <2> QED
    BY <1>3, <1>4, <1>6, <1>7, <1>8, <2>1 DEF l
<1>9. CASE j # l+1
  <2>1. j \in 1 .. l => (isData(v[j], c) <=> isData(w[j], c))
    BY <1>2
  <2> QED
    BY <1>4, <1>6, <1>7, <1>9, <2>1 DEF l
<1> QED
  BY <1>8, <1>9

LEMMA AppendNews ==
  ASSUME NEW w \in Seq(Frames), NEW f \in Frames, NEW v, v = Append(w, f)
  PROVE  \A c, j : j \in news(v, c) <=> j \in news(w, c) \/ (j = Len(w) + 1 /\ isNew(f, c))
<1> DEFINE l == Len(w)
<1>1. Len(v) = l+1 /\ l \in Nat
  OBVIOUS
<1>2. \A i \in 1 .. l : v[i] = w[i]
  OBVIOUS
<1>3. v[l + 1] = f
  OBVIOUS
<1> HIDE DEF l
<1>4. \A j : j \in 1 .. l + 1 <=> j \in 1 .. l \/ j = l + 1
  BY <1>1
<1> SUFFICES ASSUME NEW c, NEW j PROVE j \in news(v, c) <=> j \in news(w, c) \/ (j = Len(w) + 1 /\ isNew(f, c))
  OBVIOUS
<1>6. j \in news(v, c) <=> j \in 1 .. l+1 /\ isNew(v[j], c)
  BY <1>1 DEF news
<1>7. j \in news(w, c) <=> j \in 1 .. l /\ isNew(w[j], c)
  BY <1>1 DEF news, l
<1>8. CASE j = l+1
  <2>1. j \notin 1 .. l
    BY <1>8, <1>1
  <2> QED
    BY <1>3, <1>4, <1>6, <1>7, <1>8, <2>1 DEF l
<1>9. CASE j # l+1
  <2>1. j \in 1 .. l => (isNew(v[j], c) <=> isNew(w[j], c))
    BY <1>2
  <2> QED
    BY <1>4, <1>6, <1>7, <1>9, <2>1 DEF l
<1> QED
  BY <1>8, <1>9

LEMMA AppendEnds ==
  ASSUME NEW w \in Seq(Frames), NEW f \in Frames, NEW v, v = Append(w, f)
  PROVE  \A c, j : j \in ends(v, c) <=> j \in ends(w, c) \/ (j = Len(w) + 1 /\ isEnd(f, c))
<1> DEFINE l == Len(w)
<1>1. Len(v) = l+1 /\ l \in Nat
  OBVIOUS
<1>2. \A i \in 1 .. l : v[i] = w[i]
  OBVIOUS
<1>3. v[l + 1] = f
  OBVIOUS
<1> HIDE DEF l
<1>4. \A j : j \in 1 .. l + 1 <=> j \in 1 .. l \/ j = l + 1
  BY <1>1
<1> SUFFICES ASSUME NEW c, NEW j PROVE j \in ends(v, c) <=> j \in ends(w, c) \/ (j = Len(w) + 1 /\ isEnd(f, c))
  OBVIOUS
<1>6. j \in ends(v, c) <=> j \in 1 .. l+1 /\ isEnd(v[j], c)
  BY <1>1 DEF ends
<1>7. j \in ends(w, c) <=> j \in 1 .. l /\ isEnd(w[j], c)
  BY <1>1 DEF ends, l
<1>8. CASE j = l+1
  <2>1. j \notin 1 .. l
    BY <1>8, <1>1
  <2> QED
    BY <1>3, <1>4, <1>6, <1>7, <1>8, <2>1 DEF l
<1>9. CASE j # l+1
  <2>1. j \in 1 .. l => (isEnd(v[j], c) <=> isEnd(w[j], c))
    BY <1>2
  <2> QED
    BY <1>4, <1>6, <1>7, <1>9, <2>1 DEF l
<1> QED
  BY <1>8, <1>9

\* What taking the first frame leaves.
LEMMA TakeFrame ==
  ASSUME NEW w \in Seq(Frames), w # <<>>, NEW v, v = Tail(w)
  PROVE  /\ v \in Seq(Frames) /\ Len(w) = Len(v) + 1 /\ Len(v) \in Nat /\ w[1] \in Frames
         /\ \A i \in 1 .. Len(v) : v[i] = w[i + 1] /\ i + 1 \in 1 .. Len(w)
         /\ 1 \in 1 .. Len(w)
         /\ \A c, i : i \in data(v, c) <=> i \in 1 .. Len(v) /\ i + 1 \in data(w, c)
         /\ \A c, i : i \in news(v, c) <=> i \in 1 .. Len(v) /\ i + 1 \in news(w, c)
         /\ \A k, i : i \in ends(v, k) <=> i \in 1 .. Len(v) /\ i + 1 \in ends(w, k)
<1>1. v \in Seq(Frames) /\ Len(w) = Len(v) + 1 /\ Len(v) \in Nat /\ w[1] \in Frames
  OBVIOUS
<1>2. \A i \in 1 .. Len(v) : v[i] = w[i + 1] /\ i + 1 \in 1 .. Len(w)
  BY <1>1
<1>3. \A c, i : i \in data(v, c) <=> i \in 1 .. Len(v) /\ i + 1 \in data(w, c)
  BY <1>2, Zenon DEF data
<1>4. \A c, i : i \in news(v, c) <=> i \in 1 .. Len(v) /\ i + 1 \in news(w, c)
  BY <1>2, Zenon DEF news
<1>5. \A k, i : i \in ends(v, k) <=> i \in 1 .. Len(v) /\ i + 1 \in ends(w, k)
  BY <1>2, Zenon DEF ends
<1>6. 1 \in 1 .. Len(w)
  BY <1>1
<1> QED
  BY <1>1, <1>2, <1>3, <1>4, <1>5, <1>6

\* Where frames are is a position.
LEMMA Positions ==
  ASSUME NEW w \in Seq(Frames)
  PROVE  /\ Len(w) \in Nat
         /\ \A c : \A i \in data(w, c) : i \in 1 .. Len(w) /\ i \in Nat /\ i >= 1 /\ i <= Len(w) /\ w[i] \in Frames
                     /\ w[i].num \in Nat /\ w[i].num > 0 /\ isData(w[i], c)
         /\ \A c : \A i \in news(w, c) : i \in 1 .. Len(w) /\ i \in Nat /\ i >= 1 /\ i <= Len(w) /\ w[i] \in Frames
                     /\ w[i].status = "New" /\ w[i].conn = c
         /\ \A k : \A i \in ends(w, k) : i \in 1 .. Len(w) /\ i \in Nat /\ i >= 1 /\ i <= Len(w) /\ w[i] \in Frames
                     /\ w[i].status = "End" /\ w[i].id = k
<1>1. \A i \in 1 .. Len(w) : w[i] \in Frames /\ i \in Nat /\ i >= 1 /\ i <= Len(w)
  OBVIOUS
<1>2. \A f \in Frames : f.num \in Nat
  BY DEF Frames
<1>3. Len(w) \in Nat
  OBVIOUS
<1> QED
  BY <1>1, <1>2, <1>3 DEF data, news, ends, isData, isNew, isEnd

LEMMA StretchKept ==
  ASSUME NEW w \in Seq(Frames), NEW f \in Frames, NEW v, v = Append(w, f), NEW c, ~isData(f, c),
         NEW m, NEW n, stretch(w, c, m, n)
  PROVE  stretch(v, c, m, n)
<1>1. data(v, c) = data(w, c) /\ \A i \in 1 .. Len(w) : v[i] = w[i]
  <2>1. \A j : j \in data(v, c) <=> j \in data(w, c)
    BY AppendData
  <2>2. \A i \in 1 .. Len(w) : v[i] = w[i]
    BY AppendFrames
  <2>3. data(v, c) = data(w, c)
    BY <2>1
  <2> QED
    BY <2>2, <2>3
<1>2. \A i \in data(w, c) : v[i] = w[i]
  BY <1>1 DEF data
<1> QED
  BY <1>1, <1>2 DEF stretch

LEMMA StretchGrows ==
  ASSUME NEW w \in Seq(Frames), NEW f \in Frames, NEW v, v = Append(w, f), NEW c, isData(f, c),
         NEW m \in Nat, NEW n \in Nat, stretch(w, c, m, n), f.num = n + 1
  PROVE  stretch(v, c, m, n + 1)
<1> DEFINE l == Len(w) + 1
<1>0. \A j : j \in data(v, c) <=> j \in data(w, c) \/ j = l
  BY AppendData
<1>1. /\ data(v, c) = data(w, c) \cup {l}
      /\ v[l] = f /\ Len(w) \in Nat
  BY <1>0, AppendFrames
<1>2. \A i \in data(w, c) : v[i] = w[i] /\ i < l /\ i \in Nat /\ w[i].num \in Nat
  <2>1. \A i \in 1 .. Len(w) : v[i] = w[i]
    BY AppendFrames
  <2> QED
    BY <2>1, Positions
<1> HIDE DEF l
<1>3. l \in Nat
  BY <1>1 DEF l
<1>4. \A i \in data(w, c) : m < w[i].num /\ w[i].num <= n
  BY DEF stretch
<1>5. m <= n + 1
  BY DEF stretch
<1>a. \A p \in Nat : m < p /\ p <= n => m < p /\ p <= n + 1
  OBVIOUS
<1>b. \A p \in Nat : p <= n => p < n + 1
  OBVIOUS
<1>6. \A i \in data(v, c) : m < v[i].num /\ v[i].num <= n + 1
  <2> SUFFICES ASSUME NEW i \in data(v, c) PROVE m < v[i].num /\ v[i].num <= n + 1
    OBVIOUS
  <2>1. CASE i = l
    BY <2>1, <1>1 DEF stretch
  <2>2. CASE i \in data(w, c)
    BY <2>2, <1>2, <1>4, <1>a
  <2> QED
    BY <2>1, <2>2, <1>1
<1>7. \A k \in Nat : m < k /\ k <= n + 1 => \E i \in data(v, c) : v[i].num = k
  <2> SUFFICES ASSUME NEW k \in Nat, m < k, k <= n + 1 PROVE \E i \in data(v, c) : v[i].num = k
    OBVIOUS
  <2>1. CASE k = n + 1
    BY <2>1, <1>1
  <2>2. CASE k <= n
    <3>1. PICK i \in data(w, c) : w[i].num = k
      BY <2>2 DEF stretch
    <3> QED
      BY <3>1, <1>1, <1>2
  <2>3. k = n + 1 \/ k <= n
    OBVIOUS
  <2> QED
    BY <2>1, <2>2, <2>3, Zenon
<1>8. \A i, j \in data(v, c) : i < j => v[i].num < v[j].num
  <2> SUFFICES ASSUME NEW i \in data(v, c), NEW j \in data(v, c), i < j PROVE v[i].num < v[j].num
    OBVIOUS
  <2>1. CASE i \in data(w, c) /\ j \in data(w, c)
    BY <2>1, <1>2 DEF stretch
  <2>2. CASE i \in data(w, c) /\ j = l
    BY <2>2, <1>1, <1>2, <1>4, <1>b
  <2>3. CASE i = l
    BY <2>3, <1>1, <1>2, <1>3
  <2> QED
    BY <2>1, <2>2, <2>3, <1>1
<1> QED
  BY <1>5, <1>6, <1>7, <1>8 DEF stretch

LEMMA StretchMoves ==
  ASSUME NEW w \in Seq(Frames), w # <<>>, NEW v, v = Tail(w), NEW c, ~isData(w[1], c),
         NEW m, NEW n, stretch(w, c, m, n)
  PROVE  stretch(v, c, m, n)
<1>1. /\ \A i \in 1 .. Len(v) : v[i] = w[i + 1]
      /\ \A i : i \in data(v, c) <=> i \in 1 .. Len(v) /\ i + 1 \in data(w, c)
      /\ Len(w) = Len(v) + 1 /\ Len(v) \in Nat
  BY TakeFrame
<1>2. \A i \in data(v, c) : i + 1 \in data(w, c) /\ v[i] = w[i + 1] /\ i \in Nat
  BY <1>1
<1>3. \A j \in data(w, c) : j # 1 /\ j \in Nat /\ j >= 1 /\ j <= Len(w)
  BY Positions DEF data
<1>4. \A j \in data(w, c) : j - 1 \in data(v, c) /\ v[j - 1] = w[j]
  <2> TAKE j \in data(w, c)
  <2>1. j - 1 \in 1 .. Len(v) /\ (j - 1) + 1 = j
    BY <1>3, <1>1
  <2> QED
    BY <2>1, <1>1
<1>5. \A i \in data(v, c) : m < v[i].num /\ v[i].num <= n
  BY <1>2 DEF stretch
<1>6. \A k \in Nat : m < k /\ k <= n => \E i \in data(v, c) : v[i].num = k
  <2> SUFFICES ASSUME NEW k \in Nat, m < k, k <= n PROVE \E i \in data(v, c) : v[i].num = k
    OBVIOUS
  <2>1. PICK i \in data(w, c) : w[i].num = k
    BY DEF stretch
  <2> QED
    BY <2>1, <1>4
<1>7. \A i, j \in data(v, c) : i < j => v[i].num < v[j].num
  <2> SUFFICES ASSUME NEW i \in data(v, c), NEW j \in data(v, c), i < j PROVE v[i].num < v[j].num
    OBVIOUS
  <2>1. i + 1 < j + 1
    BY <1>2
  <2> QED
    BY <2>1, <1>2 DEF stretch
<1> QED
  BY <1>5, <1>6, <1>7 DEF stretch

\* The chunk that is first is the next one.
LEMMA StretchShrinks ==
  ASSUME NEW w \in Seq(Frames), w # <<>>, NEW v, v = Tail(w), NEW c, isData(w[1], c),
         NEW m \in Nat, NEW n \in Nat, stretch(w, c, m, n)
  PROVE  w[1].num = m + 1 /\ m < n /\ stretch(v, c, m + 1, n)
<1>1. /\ \A i \in 1 .. Len(v) : v[i] = w[i + 1]
      /\ \A i : i \in data(v, c) <=> i \in 1 .. Len(v) /\ i + 1 \in data(w, c)
      /\ Len(w) = Len(v) + 1 /\ Len(v) \in Nat
  BY TakeFrame
<1>2. \A i \in data(v, c) : i + 1 \in data(w, c) /\ v[i] = w[i + 1] /\ i \in Nat /\ i >= 1
  BY <1>1
<1>3. \A j \in data(w, c) : j \in Nat /\ j >= 1 /\ j <= Len(w) /\ w[j].num \in Nat
  BY Positions
<1>4. \A j \in data(w, c) : j # 1 => j - 1 \in data(v, c) /\ v[j - 1] = w[j]
  <2> TAKE j \in data(w, c)
  <2>1. j # 1 => j - 1 \in 1 .. Len(v) /\ (j - 1) + 1 = j
    BY <1>3, <1>1
  <2> QED
    BY <2>1, <1>1
<1>5. 1 \in data(w, c)
  BY TakeFrame DEF data
<1>6. m < w[1].num /\ w[1].num <= n
  BY <1>5 DEF stretch
<1>7. w[1].num = m + 1 /\ m < n
  <2>1. PICK i \in data(w, c) : w[i].num = m + 1
    <3>1. m + 1 \in Nat /\ m < m + 1 /\ m + 1 <= n
      BY <1>3, <1>5, <1>6
    <3> QED
      BY <3>1 DEF stretch
  <2>2. i = 1 \/ w[1].num < w[i].num
    BY <1>5, <1>3 DEF stretch
  <2> QED
    BY <2>1, <2>2, <1>3, <1>5, <1>6
<1>8. \A i \in data(v, c) : m + 1 < v[i].num /\ v[i].num <= n
  <2> TAKE i \in data(v, c)
  <2>1. w[1].num < w[i + 1].num /\ w[i + 1].num <= n
    <3>1. 1 < i + 1 /\ i + 1 \in data(w, c)
      BY <1>2
    <3> QED
      BY <3>1, <1>5 DEF stretch
  <2> QED
    BY <2>1, <1>7, <1>2
<1>9. \A k \in Nat : m + 1 < k /\ k <= n => \E i \in data(v, c) : v[i].num = k
  <2> SUFFICES ASSUME NEW k \in Nat, m + 1 < k, k <= n PROVE \E i \in data(v, c) : v[i].num = k
    OBVIOUS
  <2>1. PICK i \in data(w, c) : w[i].num = k
    BY DEF stretch
  <2>2. i # 1
    BY <2>1, <1>7
  <2> QED
    BY <2>1, <2>2, <1>4
<1>10. \A i, j \in data(v, c) : i < j => v[i].num < v[j].num
  <2> SUFFICES ASSUME NEW i \in data(v, c), NEW j \in data(v, c), i < j PROVE v[i].num < v[j].num
    OBVIOUS
  <2>1. i + 1 < j + 1
    BY <1>2
  <2> QED
    BY <2>1, <1>2 DEF stretch
<1>11. m + 1 <= n
  BY <1>7
<1> QED
  BY <1>7, <1>8, <1>9, <1>10, <1>11 DEF stretch

\* Where nothing of c is left, everything arrived.
LEMMA StretchEmpty ==
  ASSUME NEW w, NEW c, NEW m \in Nat, NEW n \in Nat, data(w, c) = {}
  PROVE  stretch(w, c, m, n) <=> m = n
<1>1. stretch(w, c, m, n) => m = n
  <2> SUFFICES ASSUME stretch(w, c, m, n), m < n PROVE FALSE
    BY DEF stretch
  <2>1. \E i \in data(w, c) : w[i].num = n
    BY DEF stretch
  <2> QED
    BY <2>1
<1>2. m = n => stretch(w, c, m, n)
  BY DEF stretch
<1> QED
  BY <1>1, <1>2

-----------------------------------------------------------------------------
(* The types are kept *)

LEMMA FrameFields == \A f \in Frames : /\ f.id \in Nat /\ f.status \in {"New", "Keep", "End"} /\ f.conn \in Conns \cup {None}
                                       /\ f.num \in Nat /\ f.error \in BOOLEAN
  BY DEF Frames

\* Where the next frame is from, and what it says.
LEMMA NextIsAFrame ==
  ASSUME MuxTypes, NEW x \in Sides, link[Peer(x)] # <<>>
  PROVE  /\ link[Peer(x)] \in Seq(Frames) /\ 1 \in 1 .. Len(link[Peer(x)])
         /\ NextFrame(x) = link[Peer(x)][1] /\ NextFrame(x) \in Frames
<1>1. Peer(x) \in Sides /\ link[Peer(x)] \in Seq(Frames)
  BY SidesAndPeers DEF MuxTypes
<1>2. 1 \in 1 .. Len(link[Peer(x)]) /\ link[Peer(x)][1] \in Frames
  BY <1>1
<1> QED
  BY <1>1, <1>2 DEF NextFrame

\* A session that has begun on the client's side has an id.
LEMMA HasId ==
  ASSUME MuxTypes, Numbered, Framed, NEW c \in Conns
  PROVE  /\ sender["client"][c] \notin {"none", "dispatching"} => id[c] \in Ids
         /\ sender["server"][c] # "none" => id[c] \in Ids
<1>1. id[c] \in Ids \cup {0} /\ (id[c] = 0 <=> sender["client"][c] \in {"none", "dispatching"})
  BY DEF MuxTypes, Numbered
<1>2. sender["server"][c] # "none" => sender["client"][c] \notin {"none", "dispatching"}
  BY DEF Framed, Begun, Early
<1> QED
  BY <1>1, <1>2

LEMMA SendTypes ==
  ASSUME MuxTypes, NEW x \in Sides, NEW f \in Frames, Send(x, f)
  PROVE  link' \in [Sides -> Seq(Frames)]
<1>1. link \in [Sides -> Seq(Frames)] /\ Append(link[x], f) \in Seq(Frames)
  BY DEF MuxTypes
<1> QED
  BY <1>1 DEF Send

LEMMA TakeTypes ==
  ASSUME MuxTypes, NEW x \in Sides, link[Peer(x)] # <<>>, Take(x)
  PROVE  link' \in [Sides -> Seq(Frames)]
<1>1. link \in [Sides -> Seq(Frames)] /\ Peer(x) \in Sides
  BY SidesAndPeers DEF MuxTypes
<1>2. Tail(link[Peer(x)]) \in Seq(Frames)
  BY <1>1
<1> QED
  BY <1>1, <1>2 DEF Take

LEMMA ShutTypes ==
  ASSUME NEW x \in Sides, NEW c \in Conns, NEW how \in {"closed", "errord"},
         NEW pipe \in [Sides -> [Conns -> {"open", "closed", "errord"}]]
  PROVE  Shut(pipe, x, c, how) \in [Sides -> [Conns -> {"open", "closed", "errord"}]]
  BY DEF Shut

LEMMA RemoveTypes ==
  ASSUME MuxTypes, NEW x \in Sides, NEW i
  PROVE  Remove(x, i) \in [Sides -> [Ids -> Conns \cup {None}]]
  BY DEF MuxTypes, Remove

LEMMA ManagerCloseTypes ==
  ASSUME MuxTypes, NEW x \in Sides, ManagerClose(x)
  PROVE  /\ closed' \in [Sides -> BOOLEAN]
         /\ table' \in [Sides -> [Ids -> Conns \cup {None}]]
         /\ output' \in [Sides -> [Conns -> {"open", "closed", "errord"}]]
<1>1. closed' \in [Sides -> BOOLEAN] /\ table' \in [Sides -> [Ids -> Conns \cup {None}]]
  BY DEF MuxTypes, ManagerClose
<1>2. output' \in [Sides -> [Conns -> {"open", "closed", "errord"}]]
  <2> DEFINE live == {table[x][i] : i \in Ids} \ {None}
  <2>1. output \in [Sides -> [Conns -> {"open", "closed", "errord"}]]
    BY DEF MuxTypes
  <2>2. output' = [output EXCEPT ![x] = [c \in Conns |->
                  IF c \in live /\ output[x][c] = "open" /\ sender[x][c] # "allocated" THEN "closed" ELSE output[x][c]]]
    BY <2>1 DEF ManagerClose
  <2> HIDE DEF live
  <2> QED
    BY <2>1, <2>2
<1> QED
  BY <1>1, <1>2

LEMMA CopyingType ==
  ASSUME NEW c \in Conns \cup {None}, NEW f \in Frames
  PROVE  /\ Copying(c, f) \in Receivers /\ Replying(f) \in Receivers /\ Header \in Receivers
         /\ [Header EXCEPT !.pc = "ended"] \in Receivers
         /\ Copying(c, f).pc = "copy" /\ Copying(c, f).conn = c /\ Copying(c, f).chunk = <<f.conn, f.num>>
         /\ Copying(c, f).id = f.id
         /\ Replying(f).pc = "reply" /\ Replying(f).id = f.id /\ Header.pc = "header" /\ Header.id = 0
         /\ [Header EXCEPT !.pc = "ended"].pc = "ended" /\ [Header EXCEPT !.pc = "ended"].id = 0
<1>1. f.id \in Nat /\ f.conn \in Conns \cup {None} /\ f.num \in Nat
  BY FrameFields
<1>2. Pieces \in Nat
  BY ConstantsAssumption
<1>3. <<f.conn, f.num>> \in (Conns \cup {None}) \X Nat
  BY <1>1
<1> QED
  BY <1>1, <1>2, <1>3 DEF Copying, Replying, Header, Receivers

\* What a sender takes from the input was put there.
LEMMA SentTypes ==
  ASSUME MuxTypes, NEW x \in Sides, NEW c \in Conns, HasData(x, c),
         sent' = [sent EXCEPT ![x][c] = @ + 1],
         waiting' = [waiting EXCEPT ![x][c] = IF @ > 0 THEN @ - 1 ELSE 0]
  PROVE  /\ sent' \in [Sides -> [Conns -> Nat]] /\ waiting' \in [Sides -> [Conns -> Nat]]
         /\ \A y \in Sides, d \in Conns : sent'[y][d] + waiting'[y][d] <= MaxChunks[y][d]
<1>1. sent \in [Sides -> [Conns -> Nat]] /\ waiting \in [Sides -> [Conns -> Nat]]
  BY DEF MuxTypes
<1>2. sent[x][c] \in Nat /\ waiting[x][c] \in Nat /\ MaxChunks[x][c] \in Nat
  BY <1>1, ConstantsAssumption
<1>3. sent' \in [Sides -> [Conns -> Nat]]
  BY <1>1, <1>2
<1>4. waiting' \in [Sides -> [Conns -> Nat]]
  BY <1>1, <1>2
<1>5. ASSUME NEW y \in Sides, NEW d \in Conns
      PROVE  sent'[y][d] + waiting'[y][d] <= MaxChunks[y][d]
  <2>1. CASE y = x /\ d = c
    <3>1. sent'[x][c] = sent[x][c] + 1 /\ waiting'[x][c] = IF waiting[x][c] > 0 THEN waiting[x][c] - 1 ELSE 0
      BY <1>1
    <3>2. sent[x][c] + waiting[x][c] <= MaxChunks[x][c]
      BY DEF MuxTypes
    <3>3. waiting[x][c] > 0 \/ sent[x][c] < MaxChunks[x][c]
      BY DEF HasData
    <3> QED
      BY <2>1, <3>1, <3>2, <3>3, <1>2
  <2>2. CASE ~(y = x /\ d = c)
    <3>1. sent'[y][d] = sent[y][d] /\ waiting'[y][d] = waiting[y][d]
      BY <2>2, <1>1
    <3> QED
      BY <3>1 DEF MuxTypes
  <2> QED
    BY <2>1, <2>2
<1> QED
  BY <1>3, <1>4, <1>5

\* The frame a sender makes.
LEMMA SentFrame ==
  ASSUME MuxTypes, NEW x \in Sides, NEW c \in Conns, NEW s \in {"New", "Keep"}
  PROVE  /\ Frame(id[c], s, c, sent[x][c] + 1, FALSE) \in Frames
         /\ Frame(id[c], s, c, 0, FALSE) \in Frames
         /\ \A e \in BOOLEAN : EndFrame(id[c], e) \in Frames
<1>1. id[c] \in Nat /\ sent[x][c] \in Nat
  BY DEF MuxTypes, Ids
<1> QED
  BY <1>1 DEF Frame, EndFrame, Frames

\* Sessions with an id are no more than connections.
LEMMA CountBounded ==
  ASSUME MuxTypes, Numbered, NEW c \in Conns, id[c] = 0
  PROVE  /\ count + 1 \in Ids /\ IsFiniteSet({d \in Conns : id[d] # 0}) /\ Cardinality(Conns) \in Nat
         /\ Cardinality({d \in Conns : id[d] # 0} \cup {c}) = count + 1
<1> DEFINE S == {d \in Conns : id[d] # 0}
<1>1. IsFiniteSet(Conns) /\ Cardinality(Conns) \in Nat
  BY ConstantsAssumption, FS_CardinalityType
<1>2. S \subseteq Conns /\ c \notin S
  OBVIOUS
<1>3. IsFiniteSet(S) /\ Cardinality(S) = count /\ count \in Nat
  BY <1>1, <1>2, FS_Subset, FS_CardinalityType DEF Numbered
<1>4. Cardinality(S \cup {c}) = count + 1
  BY <1>2, <1>3, FS_AddElement
<1>5. Cardinality(S \cup {c}) <= Cardinality(Conns)
  <2>1. S \cup {c} \subseteq Conns
    BY <1>2
  <2> QED
    BY <1>1, <2>1, FS_Subset
<1>6. count + 1 \in Ids
  BY <1>1, <1>3, <1>4, <1>5 DEF Ids
<1> QED
  BY <1>1, <1>3, <1>4, <1>6

LEMMA TypesStep == MuxInv /\ [Next]_vars => MuxTypes'
<1> SUFFICES ASSUME MuxInv, [Next]_vars PROVE MuxTypes'
  OBVIOUS
<1>a. /\ count \in 0 .. Cardinality(Conns)
      /\ table \in [Sides -> [Ids -> Conns \cup {None}]]
      /\ closed \in [Sides -> BOOLEAN] /\ id \in [Conns -> Ids \cup {0}]
      /\ sender \in [Sides -> [Conns -> States]]
      /\ sent \in [Sides -> [Conns -> Nat]] /\ waiting \in [Sides -> [Conns -> Nat]]
      /\ \A x \in Sides, c \in Conns : sent[x][c] + waiting[x][c] <= MaxChunks[x][c]
      /\ input \in [Sides -> [Conns -> {"open", "closed", "errord"}]]
      /\ output \in [Sides -> [Conns -> {"open", "closed", "errord"}]]
      /\ got \in [Sides -> [Conns -> Seq(Conns \X Nat)]]
      /\ link \in [Sides -> Seq(Frames)]
      /\ receiver \in [Sides -> Receivers] /\ \A x \in Sides : receiver[x].pc = "copy" => receiver[x].conn \in Conns
      /\ linkUp \in BOOLEAN /\ done \in BOOLEAN /\ monitor \in {"wait", "idle", "closing", "over"}
  BY DEF MuxInv, MuxTypes
<1>b. MuxTypes /\ Numbered /\ Placed /\ Framed /\ Flowing /\ Arrived
  BY DEF MuxInv
<1>S. \A x \in Sides, c \in Conns, s \in States : [sender EXCEPT ![x][c] = s] \in [Sides -> [Conns -> States]]
  BY <1>a
<1>s. {"none", "dispatching", "allocated", "first", "copy", "end", "error", "close", "gone"} \subseteq States
      /\ "client" \in Sides /\ "server" \in Sides
  BY DEF States, Sides
<1>1. CASE UNCHANGED vars
  BY <1>1, <1>a DEF vars, tables, flows, worker, MuxTypes
<1>2. ASSUME NEW c \in Conns, DispatchBegins(c) PROVE MuxTypes'
  BY <1>2, <1>a, <1>S, <1>s DEF DispatchBegins, tables, flows, worker, MuxTypes
<1>3. ASSUME NEW c \in Conns, Allocate(c) PROVE MuxTypes'
  <2>0. id[c] = 0
    BY <1>3, <1>b DEF Allocate, Numbered
  <2>1. count + 1 \in Ids /\ Cardinality(Conns) \in Nat
    BY <2>0, <1>b, CountBounded
  <2>2. CASE closed["client"]
    <3>1. sender' = [sender EXCEPT !["client"][c] = "none"] /\ UNCHANGED <<count, table, closed, id>>
      BY <2>2, <1>3 DEF Allocate, tables
    <3>2. sender' \in [Sides -> [Conns -> States]]
      BY <3>1, <1>S, <1>s
    <3> QED
      BY <3>1, <3>2, <1>3, <1>a DEF Allocate, flows, worker, MuxTypes
  <2>3. CASE ~closed["client"]
    <3>0. /\ count' = count + 1 /\ id' = [id EXCEPT ![c] = count + 1] /\ closed' = closed
          /\ table' = [table EXCEPT !["client"][count + 1] = c]
      BY <2>3, <1>3 DEF Allocate
    <3>a. count + 1 \in 0 .. Cardinality(Conns)
      BY <2>1 DEF Ids
    <3>1. count' \in 0 .. Cardinality(Conns) /\ id' \in [Conns -> Ids \cup {0}] /\ closed' = closed
      BY <3>0, <3>a, <2>1, <1>a
    <3>2. table' \in [Sides -> [Ids -> Conns \cup {None}]]
      BY <3>0, <2>1, <1>s, <1>a
    <3>3. sender' \in [Sides -> [Conns -> States]]
      BY <2>3, <1>3, <1>S, <1>s DEF Allocate
    <3> QED
      BY <3>1, <3>2, <3>3, <1>3, <1>a DEF Allocate, flows, worker, MuxTypes
  <2> QED
    BY <2>2, <2>3
<1>4. ASSUME NEW c \in Conns, Launch(c) PROVE MuxTypes'
  BY <1>4, <1>a, <1>S, <1>s DEF Launch, tables, flows, worker, MuxTypes
<1>5. ASSUME NEW c \in Conns, FirstPayload(c) PROVE MuxTypes'
  <2>1. sender' \in [Sides -> [Conns -> States]]
    <3>1. \E s \in {"copy", "error"} : sender' = [sender EXCEPT !["client"][c] = s]
      <4>1. \/ sender' = [sender EXCEPT !["client"][c] = IF linkUp THEN "copy" ELSE "error"]
            \/ sender' = [sender EXCEPT !["client"][c] = "error"]
        BY <1>5 DEF FirstPayload
      <4> QED
        BY <4>1
    <3> QED
      BY <3>1, <1>S, <1>s
  <2>2. input' \in [Sides -> [Conns -> {"open", "closed", "errord"}]]
    <3>1. input' = input \/ input' = Shut(input, "client", c, "errord")
      BY <1>5 DEF FirstPayload
    <3> QED
      BY <3>1, <1>a, <1>s, ShutTypes
  <2>3. link' \in [Sides -> Seq(Frames)]
    <3>1. \/ Send("client", Frame(id[c], "New", c, sent["client"][c] + 1, FALSE))
          \/ Send("client", Frame(id[c], "New", c, 0, FALSE))
          \/ link' = link
      BY <1>5 DEF FirstPayload, SendData
    <3>2. Frame(id[c], "New", c, sent["client"][c] + 1, FALSE) \in Frames /\ Frame(id[c], "New", c, 0, FALSE) \in Frames
      BY <1>b, <1>s, SentFrame
    <3> QED
      BY <3>1, <3>2, <1>b, <1>a, <1>s, SendTypes
  <2>4. /\ sent' \in [Sides -> [Conns -> Nat]] /\ waiting' \in [Sides -> [Conns -> Nat]]
        /\ \A y \in Sides, d \in Conns : sent'[y][d] + waiting'[y][d] <= MaxChunks[y][d]
    <3>1. \/ SendData("client", c, "New")
          \/ sent' = sent /\ waiting' = waiting
      BY <1>5 DEF FirstPayload
    <3>2. CASE SendData("client", c, "New")
      BY <3>2, <1>b, <1>s, SentTypes DEF SendData
    <3>3. CASE sent' = sent /\ waiting' = waiting
      BY <3>3, <1>a
    <3> QED
      BY <3>1, <3>2, <3>3
  <2>5. UNCHANGED <<count, table, closed, id, output, got, receiver, linkUp, done, monitor>>
    BY <1>5 DEF FirstPayload, tables, worker
  <2> QED
    BY <2>1, <2>2, <2>3, <2>4, <2>5, <1>a DEF MuxTypes
<1>6. ASSUME NEW x \in Sides, NEW c \in Conns, Copy(x, c) PROVE MuxTypes'
  <2>1. sender' \in [Sides -> [Conns -> States]]
    BY <1>6, <1>S, <1>s DEF Copy
  <2>3. link' \in [Sides -> Seq(Frames)]
    <3>1. \/ Send(x, Frame(id[c], "Keep", c, sent[x][c] + 1, FALSE))
          \/ link' = link
      BY <1>6 DEF Copy, SendData
    <3>2. Frame(id[c], "Keep", c, sent[x][c] + 1, FALSE) \in Frames
      BY <1>b, <1>s, SentFrame
    <3> QED
      BY <3>1, <3>2, <1>b, <1>a, <1>s, SendTypes
  <2>4. /\ sent' \in [Sides -> [Conns -> Nat]] /\ waiting' \in [Sides -> [Conns -> Nat]]
        /\ \A y \in Sides, d \in Conns : sent'[y][d] + waiting'[y][d] <= MaxChunks[y][d]
    <3>1. \/ SendData(x, c, "Keep")
          \/ sent' = sent /\ waiting' = waiting
      BY <1>6 DEF Copy
    <3>2. CASE SendData(x, c, "Keep")
      BY <3>2, <1>b, <1>s, SentTypes DEF SendData
    <3>3. CASE sent' = sent /\ waiting' = waiting
      BY <3>3, <1>a
    <3> QED
      BY <3>1, <3>2, <3>3
  <2>5. UNCHANGED <<count, table, closed, id, input, output, got, receiver, linkUp, done, monitor>>
    BY <1>6 DEF Copy, tables, worker
  <2> QED
    BY <2>1, <2>3, <2>4, <2>5, <1>a DEF MuxTypes
<1>7. ASSUME NEW x \in Sides, NEW c \in Conns, WriterClose(x, c) PROVE MuxTypes'
  <2>1. sender' \in [Sides -> [Conns -> States]]
    BY <1>7, <1>S, <1>s DEF WriterClose
  <2>2. EndFrame(id[c], sender[x][c] = "error") \in Frames
    BY <1>b, SentFrame
  <2>3. link' \in [Sides -> Seq(Frames)]
    BY <2>2, <1>7, <1>b, SendTypes DEF WriterClose
  <2> QED
    BY <2>1, <2>3, <1>7, <1>a DEF WriterClose, tables, flows, worker, MuxTypes
<1>8. ASSUME NEW x \in Sides, NEW c \in Conns, SenderCloses(x, c) PROVE MuxTypes'
  <2>1. sender' \in [Sides -> [Conns -> States]]
    BY <1>8, <1>S, <1>s DEF SenderCloses
  <2>2. output' \in [Sides -> [Conns -> {"open", "closed", "errord"}]]
    BY <1>8, <1>a, ShutTypes DEF SenderCloses, SessionClose
  <2>3. table' \in [Sides -> [Ids -> Conns \cup {None}]]
    BY <1>8, <1>b, RemoveTypes DEF SenderCloses, SessionClose
  <2> QED
    BY <2>1, <2>2, <2>3, <1>8, <1>a DEF SenderCloses, worker, MuxTypes
<1>9. ASSUME NEW x \in Sides, NEW c \in Conns, Finish(x, c) PROVE MuxTypes'
  <2>1. input' \in [Sides -> [Conns -> {"open", "closed", "errord"}]]
    BY <1>9, <1>a, ShutTypes DEF Finish
  <2>2. PICK n \in 0 .. MaxChunks[x][c] - sent[x][c] : waiting' = [waiting EXCEPT ![x][c] = n]
    BY <1>9 DEF Finish
  <2>3. n \in Nat /\ sent[x][c] + n <= MaxChunks[x][c]
    BY <1>a, ConstantsAssumption
  <2>4. waiting' \in [Sides -> [Conns -> Nat]]
    BY <2>2, <2>3, <1>a
  <2>5. \A y \in Sides, d \in Conns : sent[y][d] + waiting'[y][d] <= MaxChunks[y][d]
    BY <2>2, <2>3, <1>a
  <2> QED
    BY <2>1, <2>4, <2>5, <1>9, <1>a DEF Finish, tables, worker, MuxTypes
<1>10. ASSUME NEW x \in Sides, NEW c \in Conns, Abort(x, c) PROVE MuxTypes'
  <2>1. input' \in [Sides -> [Conns -> {"open", "closed", "errord"}]]
    BY <1>10, <1>a, ShutTypes DEF Abort
  <2>2. output' \in [Sides -> [Conns -> {"open", "closed", "errord"}]]
    BY <1>10, <1>a, ShutTypes DEF Abort
  <2> QED
    BY <2>1, <2>2, <1>10, <1>a DEF Abort, tables, worker, MuxTypes
<1>11. ASSUME handleStatusNew PROVE MuxTypes'
  <2> DEFINE f == NextFrame("server")
  <2>1. link[Peer("server")] # <<>> /\ f.status = "New" /\ Take("server")
    BY <1>11 DEF handleStatusNew, HasFrame
  <2>2. f \in Frames /\ 1 \in 1 .. Len(link[Peer("server")]) /\ f = link[Peer("server")][1]
    BY <2>1, <1>b, <1>s, NextIsAFrame
  <2>3. f.conn \in Conns /\ f.id \in Ids
    BY <2>1, <2>2, <1>b, SidesAndPeers DEF Framed, Marked
  <2>4. table' \in [Sides -> [Ids -> Conns \cup {None}]]
    BY <2>3, <1>11, <1>a DEF handleStatusNew
  <2>5. sender' \in [Sides -> [Conns -> States]]
    BY <2>3, <1>11, <1>S, <1>s DEF handleStatusNew
  <2>6. receiver' \in [Sides -> Receivers] /\ \A x \in Sides : receiver'[x].pc = "copy" => receiver'[x].conn \in Conns
    <3>1. receiver' = [receiver EXCEPT !["server"] = IF f.num = 0 THEN Header ELSE Copying(f.conn, f)]
      BY <1>11 DEF handleStatusNew
    <3>2. /\ Copying(f.conn, f) \in Receivers /\ Header \in Receivers /\ Header.pc = "header"
          /\ Copying(f.conn, f).conn = f.conn
      BY <2>2, <2>3, CopyingType
    <3> HIDE DEF f
    <3> QED
      BY <3>1, <3>2, <2>3, <1>a
  <2>7. link' \in [Sides -> Seq(Frames)]
    BY <2>1, <1>b, <1>s, TakeTypes
  <2> QED
    BY <2>4, <2>5, <2>6, <2>7, <1>11, <1>a DEF handleStatusNew, flows, worker, MuxTypes
<1>12. ASSUME NEW x \in Sides, handleStatusKeep(x) PROVE MuxTypes'
  <2> DEFINE f == NextFrame(x)
             c == Get(x, f.id)
  <2>1. link[Peer(x)] # <<>> /\ Take(x)
    BY <1>12 DEF handleStatusKeep, HasFrame
  <2>2. f \in Frames
    BY <2>1, <1>b, <1>s, NextIsAFrame
  <2>3. c \in Conns \cup {None}
    BY <1>a DEF Get
  <2>6. receiver' \in [Sides -> Receivers] /\ \A y \in Sides : receiver'[y].pc = "copy" => receiver'[y].conn \in Conns
    <3>1. receiver' = [receiver EXCEPT ![x] = IF c = None THEN Replying(f) ELSE Copying(c, f)]
      BY <1>12 DEF handleStatusKeep
    <3>2. /\ Copying(c, f) \in Receivers /\ Replying(f) \in Receivers /\ Replying(f).pc = "reply"
          /\ Copying(c, f).conn = c
      BY <2>2, <2>3, CopyingType
    <3> HIDE DEF f, c
    <3> QED
      BY <3>1, <3>2, <2>3, <1>a
  <2>7. link' \in [Sides -> Seq(Frames)]
    BY <2>1, <1>b, <1>s, TakeTypes
  <2> QED
    BY <2>6, <2>7, <1>12, <1>a DEF handleStatusKeep, tables, flows, worker, MuxTypes
<1>13. ASSUME NEW x \in Sides, handleStatusEnd(x) PROVE MuxTypes'
  <2> DEFINE f == NextFrame(x)
             c == Get(x, f.id)
  <2>1. link[Peer(x)] # <<>> /\ Take(x)
    BY <1>13 DEF handleStatusEnd, HasFrame
  <2>3. c \in Conns \cup {None}
    BY <1>a DEF Get
  <2>4. \/ UNCHANGED <<input, output, table>>
        \/ /\ c # None
           /\ input' = input \/ input' = Shut(input, x, c, "errord")
           /\ output' = Shut(output, x, c, "errord") \/ output' = Shut(output, x, c, "closed")
           /\ table' = Remove(x, f.id) \/ table' = Remove(x, id[c])
    BY <1>13 DEF handleStatusEnd, SessionClose
  <2>5. input' \in [Sides -> [Conns -> {"open", "closed", "errord"}]]
    BY <2>3, <2>4, <1>a, ShutTypes
  <2>6. output' \in [Sides -> [Conns -> {"open", "closed", "errord"}]]
    BY <2>3, <2>4, <1>a, ShutTypes
  <2>7. table' \in [Sides -> [Ids -> Conns \cup {None}]]
    BY <2>4, <1>a, <1>b, RemoveTypes
  <2>8. link' \in [Sides -> Seq(Frames)]
    BY <2>1, <1>b, <1>s, TakeTypes
  <2> QED
    BY <2>5, <2>6, <2>7, <2>8, <1>13, <1>a DEF handleStatusEnd, worker, MuxTypes
<1>14. ASSUME NEW x \in Sides, Reply(x) PROVE MuxTypes'
  <2>1. receiver[x].id \in Nat
    BY <1>a DEF Receivers
  <2>2. EndFrame(receiver[x].id, FALSE) \in Frames
    BY <2>1 DEF EndFrame, Frame, Frames
  <2>3. link' \in [Sides -> Seq(Frames)]
    BY <2>2, <1>14, <1>b, SendTypes DEF Reply
  <2>4. Header \in Receivers /\ Header.pc = "header"
    BY <2>2, CopyingType
  <2>5. receiver' \in [Sides -> Receivers] /\ \A y \in Sides : receiver'[y].pc = "copy" => receiver'[y].conn \in Conns
    BY <1>14, <1>a, <2>4 DEF Reply
  <2> QED
    BY <2>3, <2>5, <1>14, <1>a DEF Reply, tables, flows, worker, MuxTypes
<1>15. ASSUME NEW x \in Sides, CopyPiece(x) PROVE MuxTypes'
  <2> DEFINE r == receiver[x]
  <2>1. r \in Receivers /\ r.pc = "copy" /\ r.conn \in Conns
    BY <1>15, <1>a DEF CopyPiece
  <2>2. Header \in Receivers /\ Header.pc = "header"
    BY FrameFields, ConstantsAssumption DEF Header, Receivers
  <2>3. r.left > 1 => [r EXCEPT !.left = @ - 1] \in Receivers
    <3>1. r.left > 1 => r.left - 1 \in Nat
      BY <2>1 DEF Receivers
    <3> HIDE DEF r
    <3> QED
      BY <3>1, <2>1 DEF Receivers
  <2>4. [r EXCEPT !.pc = "lost"] \in Receivers
    <3> HIDE DEF r
    <3> QED
      BY <2>1 DEF Receivers
  <2>5. /\ [r EXCEPT !.left = @ - 1].conn \in Conns
        /\ [r EXCEPT !.pc = "lost"].pc = "lost"
    <3> HIDE DEF r
    <3> QED
      BY <2>1 DEF Receivers
  <2>6. PICK q : receiver' = [receiver EXCEPT ![x] = q] /\ q \in {Header, [r EXCEPT !.pc = "lost"]} \cup (IF r.left > 1 THEN {[r EXCEPT !.left = @ - 1]} ELSE {})
    <3>1. \/ receiver' = [receiver EXCEPT ![x] = IF r.left > 1 THEN [r EXCEPT !.left = @ - 1] ELSE Header]
          \/ receiver' = [receiver EXCEPT ![x] = IF r.left > 1 THEN [r EXCEPT !.pc = "lost"] ELSE Header]
      BY <1>15 DEF CopyPiece
    <3> HIDE DEF r
    <3> QED
      BY <3>1
  <2>7. q \in Receivers /\ (q.pc = "copy" => q.conn \in Conns)
    BY <2>2, <2>3, <2>4, <2>5, <2>6
  <2>8. receiver' \in [Sides -> Receivers] /\ \A y \in Sides : receiver'[y].pc = "copy" => receiver'[y].conn \in Conns
    <3> HIDE DEF r
    <3> QED
      BY <2>6, <2>7, <1>a
  <2>9. got' \in [Sides -> [Conns -> Seq(Conns \X Nat)]]
    <3>1. \/ got' = got
          \/ output[x][r.conn] = "open" /\ got' = [got EXCEPT ![x][r.conn] = Append(@, r.chunk)]
      BY <1>15 DEF CopyPiece
    <3>2. CASE output[x][r.conn] = "open" /\ got' = [got EXCEPT ![x][r.conn] = Append(@, r.chunk)]
      <4>1. r.chunk = <<r.conn, Len(got[x][r.conn]) + 1>>
        BY <3>2, <2>1, <1>b DEF Arrived, copying
      <4>2. got[x][r.conn] \in Seq(Conns \X Nat)
        BY <2>1, <1>a
      <4>3. r.chunk \in Conns \X Nat
        BY <4>1, <4>2, <2>1
      <4>4. Append(got[x][r.conn], r.chunk) \in Seq(Conns \X Nat)
        BY <4>2, <4>3
      <4> HIDE DEF r
      <4> QED
        BY <3>2, <4>4, <2>1, <1>a
    <3> QED
      BY <3>1, <3>2, <1>a
  <2> QED
    BY <2>8, <2>9, <1>15, <1>a DEF CopyPiece, tables, worker, MuxTypes
<1>16. ASSUME NEW x \in Sides, ReceiverEnds(x) PROVE MuxTypes'
  <2>1. [Header EXCEPT !.pc = "ended"] \in Receivers /\ [Header EXCEPT !.pc = "ended"].pc = "ended"
    BY DEF Header, Receivers
  <2>2. receiver' \in [Sides -> Receivers] /\ \A y \in Sides : receiver'[y].pc = "copy" => receiver'[y].conn \in Conns
    BY <2>1, <1>16, <1>a DEF ReceiverEnds
  <2>3. CASE ManagerClose(x) /\ UNCHANGED done
    BY <2>2, <2>3, <1>16, <1>a, <1>b, ManagerCloseTypes DEF ReceiverEnds, MuxTypes
  <2>4. CASE done' = TRUE /\ UNCHANGED <<table, closed, output>>
    BY <2>2, <2>4, <1>16, <1>a DEF ReceiverEnds, MuxTypes
  <2> QED
    BY <2>3, <2>4, <1>16 DEF ReceiverEnds
<1>17. CASE MonitorTick
  BY <1>17, <1>a DEF MonitorTick, tables, flows, worker, MuxTypes
<1>18. CASE CloseIfNoSession
  BY <1>18, <1>a, <1>s DEF CloseIfNoSession, flows, MuxTypes
<1>19. CASE MonitorCloses
  <2>1. CASE closed["client"]
    BY <2>1, <1>19, <1>a DEF MonitorCloses, MuxTypes
  <2>2. CASE ~closed["client"]
    BY <2>2, <1>19, <1>a, <1>b, <1>s, ManagerCloseTypes DEF MonitorCloses, MuxTypes
  <2> QED
    BY <2>1, <2>2
<1>d. [x \in Sides |-> <<>>] \in [Sides -> Seq(Frames)]
  <2>1. <<>> \in Seq(Frames)
    OBVIOUS
  <2> QED
    BY <2>1
<1>20. CASE MonitorDisconnects
  BY <1>20, <1>d, <1>a DEF MonitorDisconnects, Disconnect, tables, flows, MuxTypes
<1>21. CASE LinkFails
  BY <1>21, <1>d, <1>a DEF LinkFails, Disconnect, tables, flows, MuxTypes
<1> QED
  BY <1>1, <1>2, <1>3, <1>4, <1>5, <1>6, <1>7, <1>8, <1>9, <1>10, <1>11, <1>12, <1>13, <1>14, <1>15, <1>16, <1>17,
     <1>18, <1>19, <1>20, <1>21 DEF Next, SenderStep, ReceiverStep, MonitorStep, Application

-----------------------------------------------------------------------------
(* What most steps leave alone *)

\* Ids stay, sessions only leave the tables and outputs and the mux connection
\* only close; a sender never goes back.
TablesShrink == \A x \in Sides : \A i \in Ids : table'[x][i] # None => table'[x][i] = table[x][i]
OutputsShut  == \A x \in Sides, c \in Conns : output'[x][c] = "open" => output[x][c] = "open"
WorkersEnd   == (\A x \in Sides : closed[x] => closed'[x]) /\ (linkUp' => linkUp) /\ (done => done')
SendersGoOn  == \A c \in Conns :
  /\ sender'["client"][c] \in {"none", "dispatching"} <=> sender["client"][c] \in {"none", "dispatching"}
  /\ sender'["client"][c] \in Early => sender["client"][c] \in Early
  /\ sender'["client"][c] \in {"allocated", "first", "copy"} => sender["client"][c] \in {"allocated", "first", "copy"}
  /\ sender'["server"][c] = "none" <=> sender["server"][c] = "none"
  /\ sender["server"][c] \in {"close", "gone"} => sender'["server"][c] \in {"close", "gone"}

Steady == UNCHANGED <<count, id>> /\ TablesShrink /\ OutputsShut /\ WorkersEnd /\ SendersGoOn

LEMMA ShutShuts ==
  ASSUME NEW pipe \in [Sides -> [Conns -> {"open", "closed", "errord"}]], NEW x \in Sides, NEW c \in Conns,
         NEW how \in {"closed", "errord"}, NEW pipe1, pipe1 = Shut(pipe, x, c, how)
  PROVE  /\ \A y \in Sides, d \in Conns : pipe1[y][d] = "open" => pipe[y][d] = "open"
         /\ \A y \in Sides, d \in Conns : ~(y = x /\ d = c) => pipe1[y][d] = pipe[y][d]
         /\ pipe1[x][c] = IF pipe[x][c] = "open" THEN how ELSE pipe[x][c]
         /\ pipe1[x][c] # "open"
<1>1. \A y \in Sides, d \in Conns : pipe1[y][d] = IF y = x /\ d = c THEN (IF pipe[x][c] = "open" THEN how ELSE pipe[x][c]) ELSE pipe[y][d]
  BY DEF Shut
<1> QED
  BY <1>1

LEMMA RemoveRemoves ==
  ASSUME MuxTypes, NEW x \in Sides, NEW k, table' = Remove(x, k)
  PROVE  /\ TablesShrink
         /\ \A y \in Sides, i \in Ids : ~(y = x /\ i = k) => table'[y][i] = table[y][i]
  BY DEF MuxTypes, Remove, TablesShrink

LEMMA ManagerCloses ==
  ASSUME MuxTypes, NEW x \in Sides, ManagerClose(x)
  PROVE  /\ TablesShrink /\ OutputsShut
         /\ closed' = [closed EXCEPT ![x] = TRUE]
         /\ \A y \in Sides, i \in Ids : table'[y][i] = IF y = x THEN None ELSE table[y][i]
         /\ \A y \in Sides, c \in Conns : output'[y][c] # output[y][c] =>
              y = x /\ output[x][c] = "open" /\ sender[x][c] # "allocated" /\ \E i \in Ids : table[x][i] = c
<1> DEFINE live == {table[x][i] : i \in Ids} \ {None}
<1>1. /\ output \in [Sides -> [Conns -> {"open", "closed", "errord"}]] /\ closed \in [Sides -> BOOLEAN]
      /\ table \in [Sides -> [Ids -> Conns \cup {None}]]
  BY DEF MuxTypes
<1>2. output' = [output EXCEPT ![x] = [c \in Conns |->
                  IF c \in live /\ output[x][c] = "open" /\ sender[x][c] # "allocated" THEN "closed" ELSE output[x][c]]]
  BY <1>1 DEF ManagerClose
<1>3. \A c \in Conns : c \in live => \E i \in Ids : table[x][i] = c
  OBVIOUS
<1> HIDE DEF live
<1>4. \A y \in Sides, c \in Conns : output'[y][c] = IF y = x /\ c \in live /\ output[x][c] = "open" /\ sender[x][c] # "allocated"
                                                      THEN "closed" ELSE output[y][c]
  BY <1>1, <1>2
<1>5. table' = [table EXCEPT ![x] = [i \in Ids |-> None]] /\ closed' = [closed EXCEPT ![x] = TRUE]
  BY DEF ManagerClose
<1>6. \A y \in Sides, i \in Ids : table'[y][i] = IF y = x THEN None ELSE table[y][i]
  BY <1>1, <1>5
<1>7. TablesShrink
  BY <1>6 DEF TablesShrink
<1>8. OutputsShut
  BY <1>4 DEF OutputsShut
<1> QED
  BY <1>3, <1>4, <1>5, <1>6, <1>7, <1>8

\* One sender going on.
LEMMA SenderGoesOn ==
  ASSUME MuxTypes, NEW x \in Sides, NEW c \in Conns, NEW s \in States, sender' = [sender EXCEPT ![x][c] = s],
         x = "client" => /\ s \in {"none", "dispatching"} <=> sender["client"][c] \in {"none", "dispatching"}
                         /\ s \in Early => sender["client"][c] \in Early
                         /\ s \in {"allocated", "first", "copy"} => sender["client"][c] \in {"allocated", "first", "copy"},
         x = "server" => /\ s # "none" /\ sender["server"][c] # "none"
                         /\ sender["server"][c] \in {"close", "gone"} => s \in {"close", "gone"}
  PROVE  SendersGoOn
<1>1. \A y \in Sides, d \in Conns : sender'[y][d] = IF y = x /\ d = c THEN s ELSE sender[y][d]
  BY DEF MuxTypes
<1>2. "client" \in Sides /\ "server" \in Sides /\ "client" # "server"
  BY DEF Sides
<1> QED
  BY <1>1, <1>2 DEF SendersGoOn

LEMMA Unmoved ==
  /\ table' = table => TablesShrink
  /\ output' = output => OutputsShut
  /\ sender' = sender => SendersGoOn
  /\ UNCHANGED <<closed, linkUp, done>> => WorkersEnd
  BY DEF TablesShrink, OutputsShut, SendersGoOn, WorkersEnd

LEMMA SteadySteps ==
  ASSUME MuxInv, Next
  PROVE  \/ Steady
         \/ \E c \in Conns : Allocate(c)
         \/ handleStatusNew
<1>a. MuxTypes
  BY DEF MuxInv
<1>s. "client" \in Sides /\ "server" \in Sides /\ "client" # "server"
  BY DEF Sides
<1>t. /\ {"none", "dispatching", "allocated", "first", "copy", "end", "error", "close", "gone"} = States
      /\ Early = {"none", "dispatching", "allocated", "first"}
  BY DEF States, Early
<1>o. output \in [Sides -> [Conns -> {"open", "closed", "errord"}]] /\ closed \in [Sides -> BOOLEAN]
      /\ linkUp \in BOOLEAN /\ done \in BOOLEAN
  BY <1>a DEF MuxTypes
<1>2. ASSUME NEW c \in Conns, DispatchBegins(c) PROVE Steady
  <2>1. SendersGoOn
    BY <1>2, <1>a, <1>s, <1>t, SenderGoesOn DEF DispatchBegins
  <2> QED
    BY <2>1, <1>2, Unmoved DEF DispatchBegins, tables, flows, worker, Steady
<1>4. ASSUME NEW c \in Conns, Launch(c) PROVE Steady
  <2>1. SendersGoOn
    BY <1>4, <1>a, <1>s, <1>t, SenderGoesOn DEF Launch
  <2> QED
    BY <2>1, <1>4, Unmoved DEF Launch, tables, flows, worker, Steady
<1>5. ASSUME NEW c \in Conns, FirstPayload(c) PROVE Steady
  <2>0. PICK s \in {"copy", "error"} : sender' = [sender EXCEPT !["client"][c] = s]
    <3>1. \/ sender' = [sender EXCEPT !["client"][c] = IF linkUp THEN "copy" ELSE "error"]
          \/ sender' = [sender EXCEPT !["client"][c] = "error"]
      BY <1>5 DEF FirstPayload
    <3> QED
      BY <3>1
  <2>1. SendersGoOn
    <3>1. sender["client"][c] = "first"
      BY <1>5 DEF FirstPayload
    <3> QED
      BY <3>1, <2>0, <1>a, <1>s, <1>t, SenderGoesOn
  <2> QED
    BY <2>1, <1>5, Unmoved DEF FirstPayload, tables, worker, Steady
<1>6. ASSUME NEW x \in Sides, NEW c \in Conns, Copy(x, c) PROVE Steady
  <2>0. PICK s \in {"copy", "end"} : sender' = [sender EXCEPT ![x][c] = s]
    <3>1. \/ sender' = [sender EXCEPT ![x][c] = IF linkUp THEN "copy" ELSE "end"]
          \/ sender' = [sender EXCEPT ![x][c] = "end"]
      BY <1>6 DEF Copy
    <3> QED
      BY <3>1
  <2>1. SendersGoOn
    <3>1. sender[x][c] = "copy"
      BY <1>6 DEF Copy
    <3> QED
      BY <3>1, <2>0, <1>a, <1>s, <1>t, SenderGoesOn
  <2> QED
    BY <2>1, <1>6, Unmoved DEF Copy, tables, worker, Steady
<1>7. ASSUME NEW x \in Sides, NEW c \in Conns, WriterClose(x, c) PROVE Steady
  <2>1. SendersGoOn
    BY <1>7, <1>a, <1>s, <1>t, SenderGoesOn DEF WriterClose
  <2> QED
    BY <2>1, <1>7, Unmoved DEF WriterClose, tables, flows, worker, Steady
<1>8. ASSUME NEW x \in Sides, NEW c \in Conns, SenderCloses(x, c) PROVE Steady
  <2>1. SendersGoOn
    BY <1>8, <1>a, <1>s, <1>t, SenderGoesOn DEF SenderCloses
  <2>2. OutputsShut
    BY <1>8, <1>o, ShutShuts DEF SenderCloses, SessionClose, OutputsShut
  <2>3. TablesShrink
    BY <1>8, <1>a, RemoveRemoves DEF SenderCloses, SessionClose
  <2> QED
    BY <2>1, <2>2, <2>3, <1>8, Unmoved DEF SenderCloses, worker, Steady
<1>9. ASSUME NEW x \in Sides, NEW c \in Conns, Finish(x, c) PROVE Steady
  BY <1>9, Unmoved DEF Finish, tables, worker, Steady
<1>10. ASSUME NEW x \in Sides, NEW c \in Conns, Abort(x, c) PROVE Steady
  <2>2. OutputsShut
    <3>1. output' = Shut(output, x, c, "errord")
      BY <1>10 DEF Abort
    <3>2. \A y \in Sides, d \in Conns : output'[y][d] = "open" => output[y][d] = "open"
      BY <3>1, <1>o, ShutShuts
    <3> QED
      BY <3>2 DEF OutputsShut
  <2> QED
    BY <2>2, <1>10, Unmoved DEF Abort, tables, worker, Steady
<1>12. ASSUME NEW x \in Sides, handleStatusKeep(x) PROVE Steady
  BY <1>12, Unmoved DEF handleStatusKeep, tables, flows, worker, Steady
<1>13. ASSUME NEW x \in Sides, handleStatusEnd(x) PROVE Steady
  <2> DEFINE f == NextFrame(x)
             c == Get(x, f.id)
  <2>3. c \in Conns \cup {None}
    BY <1>a DEF Get, MuxTypes
  <2>4. \/ UNCHANGED <<input, output, table>>
        \/ /\ c # None
           /\ output' = Shut(output, x, c, "errord") \/ output' = Shut(output, x, c, "closed")
           /\ table' = Remove(x, f.id) \/ table' = Remove(x, id[c])
    BY <1>13 DEF handleStatusEnd, SessionClose
  <2>5. OutputsShut
    <3>1. CASE c # None /\ (output' = Shut(output, x, c, "errord") \/ output' = Shut(output, x, c, "closed"))
      BY <3>1, <2>3, <1>o, ShutShuts DEF OutputsShut
    <3> QED
      BY <3>1, <2>4, Unmoved
  <2>6. TablesShrink
    BY <2>4, <1>a, RemoveRemoves, Unmoved
  <2> QED
    BY <2>5, <2>6, <1>13, Unmoved DEF handleStatusEnd, worker, Steady
<1>14. ASSUME NEW x \in Sides, Reply(x) PROVE Steady
  BY <1>14, Unmoved DEF Reply, tables, flows, worker, Steady
<1>15. ASSUME NEW x \in Sides, CopyPiece(x) PROVE Steady
  BY <1>15, Unmoved DEF CopyPiece, tables, worker, Steady
<1>16. ASSUME NEW x \in Sides, ReceiverEnds(x) PROVE Steady
  <2>1. UNCHANGED <<count, id, sender, linkUp>>
    BY <1>16 DEF ReceiverEnds
  <2>3. CASE ManagerClose(x) /\ UNCHANGED done
    <3>1. TablesShrink /\ OutputsShut /\ closed' = [closed EXCEPT ![x] = TRUE]
      BY <2>3, <1>a, ManagerCloses
    <3>2. WorkersEnd
      BY <3>1, <2>1, <2>3, <1>o DEF WorkersEnd
    <3> QED
      BY <2>1, <3>1, <3>2, Unmoved DEF Steady
  <2>4. CASE done' = TRUE /\ UNCHANGED <<table, closed, output>>
    <3>2. WorkersEnd
      BY <2>4, <2>1 DEF WorkersEnd
    <3> QED
      BY <2>1, <2>4, <3>2, Unmoved DEF Steady
  <2> QED
    BY <2>3, <2>4, <1>16 DEF ReceiverEnds
<1>17. ASSUME MonitorTick PROVE Steady
  BY <1>17, Unmoved DEF MonitorTick, tables, flows, worker, Steady
<1>18. ASSUME CloseIfNoSession PROVE Steady
  <2>2. WorkersEnd
    BY <1>18, <1>o, <1>s DEF CloseIfNoSession, WorkersEnd
  <2> QED
    BY <2>2, <1>18, Unmoved DEF CloseIfNoSession, flows, Steady
<1>19. ASSUME MonitorCloses PROVE Steady
  <2>1. UNCHANGED <<count, id, sender, linkUp, done>>
    BY <1>19 DEF MonitorCloses
  <2>2. CASE closed["client"]
    BY <2>1, <2>2, <1>19, Unmoved DEF MonitorCloses, Steady
  <2>3. CASE ~closed["client"]
    <3>1. TablesShrink /\ OutputsShut /\ closed' = [closed EXCEPT !["client"] = TRUE]
      BY <2>3, <1>19, <1>a, <1>s, ManagerCloses DEF MonitorCloses
    <3>2. WorkersEnd
      BY <3>1, <2>1, <1>o DEF WorkersEnd
    <3> QED
      BY <2>1, <3>1, <3>2, Unmoved DEF Steady
  <2> QED
    BY <2>2, <2>3
<1>20. ASSUME MonitorDisconnects PROVE Steady
  <2>1. WorkersEnd
    BY <1>20 DEF MonitorDisconnects, Disconnect, WorkersEnd, tables
  <2> QED
    BY <2>1, <1>20, Unmoved DEF MonitorDisconnects, tables, flows, Steady
<1>21. ASSUME LinkFails PROVE Steady
  <2>1. WorkersEnd
    BY <1>21 DEF LinkFails, Disconnect, WorkersEnd, tables
  <2> QED
    BY <2>1, <1>21, Unmoved DEF LinkFails, tables, flows, Steady
<1> QED
  BY <1>2, <1>4, <1>5, <1>6, <1>7, <1>8, <1>9, <1>10, <1>12, <1>13, <1>14, <1>15, <1>16, <1>17,
     <1>18, <1>19, <1>20, <1>21 DEF Next, SenderStep, ReceiverStep, MonitorStep, Application

-----------------------------------------------------------------------------
(* Sessions and their ids *)

\* What Allocate does to a manager that is open.
LEMMA AllocateOpen ==
  ASSUME MuxInv, NEW c \in Conns, Allocate(c), ~closed["client"]
  PROVE  /\ count' = count + 1 /\ count + 1 \in Ids /\ closed' = closed /\ id[c] = 0
         /\ id' = [id EXCEPT ![c] = count + 1] /\ id' \in [Conns -> Ids \cup {0}]
         /\ \A d \in Conns : id'[d] = IF d = c THEN count + 1 ELSE id[d]
         /\ \A x \in Sides, i \in Ids : table'[x][i] = IF x = "client" /\ i = count + 1 THEN c ELSE table[x][i]
         /\ \A x \in Sides, d \in Conns : sender'[x][d] = IF x = "client" /\ d = c THEN "allocated" ELSE sender[x][d]
         /\ UNCHANGED <<flows, link, receiver, worker>>
         /\ sender["client"][c] = "dispatching"
<1>1. /\ count' = count + 1 /\ id' = [id EXCEPT ![c] = count + 1] /\ closed' = closed
      /\ table' = [table EXCEPT !["client"][count + 1] = c]
      /\ sender' = [sender EXCEPT !["client"][c] = "allocated"]
      /\ UNCHANGED <<flows, link, receiver, worker>>
      /\ sender["client"][c] = "dispatching"
  BY DEF Allocate
<1>2. id[c] = 0
  BY <1>1 DEF MuxInv, Numbered
<1>3. count + 1 \in Ids
  BY <1>2, CountBounded DEF MuxInv
<1>4. /\ table \in [Sides -> [Ids -> Conns \cup {None}]] /\ id \in [Conns -> Ids \cup {0}]
      /\ sender \in [Sides -> [Conns -> States]] /\ "client" \in Sides
  BY DEF MuxInv, MuxTypes, Sides
<1>5. \A x \in Sides, i \in Ids : table'[x][i] = IF x = "client" /\ i = count + 1 THEN c ELSE table[x][i]
  BY <1>1, <1>3, <1>4
<1>6. \A x \in Sides, d \in Conns : sender'[x][d] = IF x = "client" /\ d = c THEN "allocated" ELSE sender[x][d]
  BY <1>1, <1>4
<1>7. (\A d \in Conns : id'[d] = IF d = c THEN count + 1 ELSE id[d]) /\ id' \in [Conns -> Ids \cup {0}]
  BY <1>1, <1>3, <1>4
<1> QED
  BY <1>1, <1>2, <1>3, <1>5, <1>6, <1>7

\* A closed manager sends the connection back.
LEMMA AllocateClosed ==
  ASSUME MuxInv, NEW c \in Conns, Allocate(c), closed["client"]
  PROVE  Steady /\ UNCHANGED <<tables, flows, link, receiver, worker>>
         /\ \A d \in Conns : sender'["client"][d] # sender["client"][d] => sender'["client"][d] = "none"
<1>1. sender' = [sender EXCEPT !["client"][c] = "none"] /\ sender["client"][c] = "dispatching"
      /\ UNCHANGED <<tables, flows, link, receiver, worker>>
  BY DEF Allocate
<1>2. sender \in [Sides -> [Conns -> States]] /\ "client" \in Sides /\ "client" # "server"
  BY DEF MuxInv, MuxTypes, Sides
<1>3. SendersGoOn
  BY <1>1, <1>2, SenderGoesOn DEF MuxInv, States, Early
<1> QED
  BY <1>1, <1>2, <1>3, Unmoved DEF tables, flows, worker, Steady

\* What the server does with a New frame.
LEMMA NewArrives ==
  ASSUME MuxInv, handleStatusNew, NEW f, f = NextFrame("server"), NEW c, c = f.conn
  PROVE  /\ f \in Frames /\ f.status = "New" /\ c \in Conns /\ f.id = id[c] /\ id[c] \in Ids /\ f.num \in {0, 1}
         /\ sender["server"][c] = "none" /\ link["client"] # <<>> /\ f = link["client"][1] /\ linkUp
         /\ Take("server") /\ link'["client"] = Tail(link["client"]) /\ link'["server"] = link["server"]
         /\ \A x \in Sides, i \in Ids : table'[x][i] = IF x = "server" /\ i = id[c] THEN c ELSE table[x][i]
         /\ \A x \in Sides, d \in Conns : sender'[x][d] = IF x = "server" /\ d = c THEN "copy" ELSE sender[x][d]
         /\ receiver'["client"] = receiver["client"] /\ receiver["server"].pc = "header"
         /\ receiver'["server"] = IF f.num = 0 THEN Header ELSE Copying(c, f)
         /\ UNCHANGED <<count, closed, id, flows, worker>>
<1>1. link[Peer("server")] # <<>> /\ f.status = "New" /\ Take("server") /\ receiver["server"].pc = "header"
  BY DEF handleStatusNew, HasFrame
<1>2. Peer("server") = "client" /\ "server" \in Sides /\ "client" \in Sides /\ "client" # "server"
  BY SidesAndPeers
<1>3. f \in Frames /\ 1 \in 1 .. Len(link["client"]) /\ f = link["client"][1]
  BY <1>1, <1>2, NextIsAFrame DEF MuxInv
<1>4. c \in Conns /\ f.id = id[c] /\ id[c] \in Ids /\ f.num \in {0, 1} /\ sender["server"][c] = "none"
  <2>1. Framed
    BY DEF MuxInv
  <2> QED
    BY <1>1, <1>2, <1>3, <2>1 DEF Framed, Marked
<1>5. linkUp
  BY <1>1, <1>2 DEF MuxInv, Framed
<1>6. /\ table \in [Sides -> [Ids -> Conns \cup {None}]] /\ sender \in [Sides -> [Conns -> States]]
      /\ link \in [Sides -> Seq(Frames)] /\ receiver \in [Sides -> Receivers]
  BY DEF MuxInv, MuxTypes
<1>7. /\ table' = [table EXCEPT !["server"][id[c]] = c]
      /\ sender' = [sender EXCEPT !["server"][c] = "copy"]
      /\ receiver' = [receiver EXCEPT !["server"] = IF f.num = 0 THEN Header ELSE Copying(c, f)]
      /\ UNCHANGED <<count, closed, id, flows, worker>>
  BY <1>4 DEF handleStatusNew
<1>8. link'["client"] = Tail(link["client"]) /\ link'["server"] = link["server"]
  BY <1>1, <1>2, <1>6 DEF Take
<1>9. \A x \in Sides, i \in Ids : table'[x][i] = IF x = "server" /\ i = id[c] THEN c ELSE table[x][i]
  BY <1>7, <1>6, <1>4
<1>10. \A x \in Sides, d \in Conns : sender'[x][d] = IF x = "server" /\ d = c THEN "copy" ELSE sender[x][d]
  BY <1>7, <1>6, <1>4
<1>11. receiver'["client"] = receiver["client"] /\ receiver'["server"] = IF f.num = 0 THEN Header ELSE Copying(c, f)
  BY <1>7, <1>6, <1>2
<1> QED
  BY <1>1, <1>3, <1>4, <1>5, <1>7, <1>8, <1>9, <1>10, <1>11

LEMMA NumberedStep ==
  ASSUME MuxInv, Next
  PROVE  Numbered'
<1>n. Numbered
  BY DEF MuxInv
<1>1. CASE Steady
  <2>1. count' = count /\ id' = id
    BY <1>1 DEF Steady
  <2>2. \A c \in Conns : sender'["client"][c] \in {"none", "dispatching"} <=> sender["client"][c] \in {"none", "dispatching"}
    BY <1>1 DEF Steady, SendersGoOn
  <2> QED
    BY <2>1, <2>2, <1>n DEF Numbered
<1>2. ASSUME NEW c \in Conns, Allocate(c), ~closed["client"] PROVE Numbered'
  <2>1. /\ count' = count + 1 /\ count + 1 \in Ids /\ id[c] = 0
        /\ \A d \in Conns : id'[d] = IF d = c THEN count + 1 ELSE id[d]
        /\ \A d \in Conns : sender'["client"][d] = IF d = c THEN "allocated" ELSE sender["client"][d]
    BY <1>2, AllocateOpen, SidesAndPeers
  <2>2. count \in Nat /\ \A d \in Conns : id[d] \in Nat /\ id[d] <= count
    BY <1>n DEF MuxInv, MuxTypes, Numbered, Ids
  <2>3. count' = Cardinality({d \in Conns : id'[d] # 0})
    <3>1. {d \in Conns : id'[d] # 0} = {d \in Conns : id[d] # 0} \cup {c}
      BY <2>1, <2>2
    <3>2. Cardinality({d \in Conns : id[d] # 0} \cup {c}) = count + 1
      BY <2>1, CountBounded DEF MuxInv
    <3> QED
      BY <3>1, <3>2, <2>1
  <2>6. \A d \in Conns : id[d] <= count /\ (id[d] = 0 <=> sender["client"][d] \in {"none", "dispatching"})
    BY <1>n DEF Numbered
  <2>7. \A d, e \in Conns : id[d] = id[e] /\ id[d] # 0 => d = e
    BY <1>n DEF Numbered
  <2>4. ASSUME NEW d \in Conns
        PROVE  id'[d] <= count' /\ (id'[d] = 0 <=> sender'["client"][d] \in {"none", "dispatching"})
    <3>1. CASE d = c
      <4>1. id'[d] = count + 1 /\ sender'["client"][d] = "allocated"
        BY <3>1, <2>1
      <4> QED
        BY <4>1, <2>1, <2>2
    <3>2. CASE d # c
      <4>1. id'[d] = id[d] /\ sender'["client"][d] = sender["client"][d]
        BY <3>2, <2>1
      <4>2. id[d] <= count + 1
        BY <2>2
      <4> QED
        BY <4>1, <4>2, <2>1, <2>6
    <3> QED
      BY <3>1, <3>2
  <2>5. ASSUME NEW d \in Conns, NEW e \in Conns, id'[d] = id'[e], id'[d] # 0 PROVE d = e
    <3>1. \A g \in Conns : id[g] # count + 1
      BY <2>2
    <3> QED
      BY <3>1, <2>1, <2>5, <2>7
  <2> QED
    BY <2>3, <2>4, <2>5 DEF Numbered
<1>3. ASSUME NEW c \in Conns, Allocate(c), closed["client"] PROVE Steady
  BY <1>3, AllocateClosed
<1>4. CASE handleStatusNew
  <2>1. UNCHANGED <<count, id>> /\ \A d \in Conns : sender'["client"][d] = sender["client"][d]
    BY <1>4, NewArrives, SidesAndPeers
  <2> QED
    BY <2>1, <1>n DEF Numbered
<1> QED
  BY <1>1, <1>2, <1>3, <1>4, SteadySteps

LEMMA PlacedStep ==
  ASSUME MuxInv, Next
  PROVE  Placed'
<1>p. Placed
  BY DEF MuxInv
<1>t. \A x \in Sides, i \in Ids : table[x][i] \in Conns \cup {None}
  BY DEF MuxInv, MuxTypes
<1>s. "client" \in Sides /\ "server" \in Sides /\ "client" # "server" /\ None \notin Conns
  BY SidesAndPeers, ConstantsAssumption
<1>1. CASE Steady
  <2>1. id' = id /\ \A x \in Sides : \A i \in Ids : table'[x][i] # None => table'[x][i] = table[x][i]
    BY <1>1 DEF Steady, TablesShrink
  <2>2. \A c \in Conns : sender'["server"][c] = "none" <=> sender["server"][c] = "none"
    BY <1>1 DEF Steady, SendersGoOn
  <2> QED
    BY <2>1, <2>2, <1>p, <1>s DEF Placed
<1>2. ASSUME NEW c \in Conns, Allocate(c), ~closed["client"] PROVE Placed'
  <2>1. /\ id[c] = 0 /\ count + 1 \in Ids
        /\ \A d \in Conns : id'[d] = IF d = c THEN count + 1 ELSE id[d]
        /\ \A x \in Sides, i \in Ids : table'[x][i] = IF x = "client" /\ i = count + 1 THEN c ELSE table[x][i]
        /\ \A d \in Conns : sender'["server"][d] = sender["server"][d]
    BY <1>2, <1>s, AllocateOpen
  <2>2. \A x \in Sides, i \in Ids : table[x][i] # c
    BY <2>1, <1>p, <1>s DEF Placed, Ids
  <2>3. \A x \in Sides, i \in Ids : table'[x][i] # None => id'[table'[x][i]] = i
    BY <2>1, <2>2, <1>p, <1>t DEF Placed
  <2>4. \A d \in Conns, i \in Ids : table'["server"][i] = d => sender'["server"][d] # "none"
    BY <2>1, <1>p, <1>s DEF Placed
  <2> QED
    BY <2>3, <2>4 DEF Placed
<1>3. ASSUME NEW c \in Conns, Allocate(c), closed["client"] PROVE Steady
  BY <1>3, AllocateClosed
<1>4. CASE handleStatusNew
  <2>1. PICK f, c : f = NextFrame("server") /\ c = f.conn
    OBVIOUS
  <2>2. /\ c \in Conns /\ id' = id
        /\ \A x \in Sides, i \in Ids : table'[x][i] = IF x = "server" /\ i = id[c] THEN c ELSE table[x][i]
        /\ \A x \in Sides, d \in Conns : sender'[x][d] = IF x = "server" /\ d = c THEN "copy" ELSE sender[x][d]
    BY <2>1, <1>4, NewArrives
  <2>3. \A x \in Sides, i \in Ids : table'[x][i] # None => id'[table'[x][i]] = i
    BY <2>2, <1>p, <1>t DEF Placed
  <2>4. \A d \in Conns, i \in Ids : table'["server"][i] = d => sender'["server"][d] # "none"
    BY <2>2, <1>p, <1>s DEF Placed
  <2> QED
    BY <2>3, <2>4 DEF Placed
<1> QED
  BY <1>1, <1>2, <1>3, <1>4, SteadySteps

-----------------------------------------------------------------------------
(* What a step does to the frames on their way *)

\* A frame a sender makes is the next of its connection.
Origin(x, f) ==
  \/ f.status = "End"
  \/ /\ f.status = "New" /\ x = "client" /\ f.conn \in Conns /\ f.id = id[f.conn] /\ sender["client"][f.conn] = "first"
     /\ f.num \in {0, sent["client"][f.conn] + 1}
  \/ /\ f.status = "Keep" /\ f.conn \in Conns /\ f.id = id[f.conn] /\ sender[x][f.conn] = "copy"
     /\ f.num = sent[x][f.conn] + 1

LEMMA SendSends ==
  ASSUME MuxTypes, Numbered, Framed, NEW x \in Sides, NEW f, Send(x, f), linkUp' = linkUp
  PROVE  /\ \A y \in Sides : y # x => link'[y] = link[y]
         /\ IF linkUp THEN link'[x] = Append(link[x], f) ELSE link'[x] = link[x]
  BY DEF Send, MuxTypes

LEMMA TakeTakes ==
  ASSUME MuxTypes, NEW x \in Sides, Take(x)
  PROVE  /\ link'[x] = link[x]
         /\ link'[Peer(x)] = Tail(link[Peer(x)])
         /\ \A y \in Sides : y = x \/ y = Peer(x)
<1>1. link \in [Sides -> Seq(Frames)] /\ Peer(x) \in Sides /\ Peer(x) # x /\ \A y \in Sides : y = x \/ y = Peer(x)
  BY SidesAndPeers DEF MuxTypes
<1> QED
  BY <1>1 DEF Take

LEMMA LinkMoves ==
  ASSUME MuxInv, Next, NEW x \in Sides
  PROVE  \/ link'[x] = link[x]
         \/ link'[x] = <<>> /\ ~linkUp'
         \/ link[x] # <<>> /\ link'[x] = Tail(link[x])
         \/ \E f \in Frames : link'[x] = Append(link[x], f) /\ linkUp /\ Origin(x, f)
<1> DEFINE G == \/ link'[x] = link[x]
                \/ link'[x] = <<>> /\ ~linkUp'
                \/ link[x] # <<>> /\ link'[x] = Tail(link[x])
                \/ \E f \in Frames : link'[x] = Append(link[x], f) /\ linkUp /\ Origin(x, f)
<1>a. MuxTypes /\ Numbered /\ Framed
  BY DEF MuxInv
<1>s. "client" \in Sides /\ "server" \in Sides /\ "client" # "server"
  BY SidesAndPeers
<1>S. ASSUME NEW y \in Sides, NEW f \in Frames, Send(y, f), Origin(y, f), linkUp' = linkUp
      PROVE  G
  <2>1. /\ x # y => link'[x] = link[x]
        /\ IF linkUp THEN link'[y] = Append(link[y], f) ELSE link'[y] = link[y]
    BY <1>S, <1>a, SendSends
  <2> QED
    BY <2>1, <1>S
<1>T. ASSUME NEW y \in Sides, Take(y), link[Peer(y)] # <<>> PROVE G
  BY <1>T, <1>a, TakeTakes
<1>U. link' = link => G
  OBVIOUS
<1> HIDE DEF G
<1>2. ASSUME NEW c \in Conns, DispatchBegins(c) \/ Allocate(c) \/ Launch(c) PROVE G
  BY <1>2, <1>U DEF DispatchBegins, Allocate, Launch
<1>5. ASSUME NEW c \in Conns, FirstPayload(c) PROVE G
  <2>1. \/ Send("client", Frame(id[c], "New", c, sent["client"][c] + 1, FALSE))
        \/ Send("client", Frame(id[c], "New", c, 0, FALSE))
        \/ link' = link
    BY <1>5 DEF FirstPayload, SendData
  <2>2. Frame(id[c], "New", c, sent["client"][c] + 1, FALSE) \in Frames /\ Frame(id[c], "New", c, 0, FALSE) \in Frames
    BY <1>a, <1>s, SentFrame
  <2>3. linkUp' = linkUp /\ sender["client"][c] = "first"
    BY <1>5 DEF FirstPayload, worker
  <2>4. Origin("client", Frame(id[c], "New", c, sent["client"][c] + 1, FALSE)) /\ Origin("client", Frame(id[c], "New", c, 0, FALSE))
    BY <2>3 DEF Origin, Frame
  <2> QED
    BY <2>1, <2>2, <2>3, <2>4, <1>S, <1>U, <1>s
<1>6. ASSUME NEW y \in Sides, NEW c \in Conns, Copy(y, c) PROVE G
  <2>1. Send(y, Frame(id[c], "Keep", c, sent[y][c] + 1, FALSE)) \/ link' = link
    BY <1>6 DEF Copy, SendData
  <2>2. Frame(id[c], "Keep", c, sent[y][c] + 1, FALSE) \in Frames
    BY <1>a, <1>s, SentFrame
  <2>3. linkUp' = linkUp /\ sender[y][c] = "copy"
    BY <1>6 DEF Copy, worker
  <2>4. Origin(y, Frame(id[c], "Keep", c, sent[y][c] + 1, FALSE))
    BY <2>3 DEF Origin, Frame
  <2> QED
    BY <2>1, <2>2, <2>3, <2>4, <1>S, <1>U
<1>7. ASSUME NEW y \in Sides, NEW c \in Conns, WriterClose(y, c) PROVE G
  <2>1. Send(y, EndFrame(id[c], sender[y][c] = "error")) /\ linkUp' = linkUp
    BY <1>7 DEF WriterClose, worker
  <2>2. EndFrame(id[c], sender[y][c] = "error") \in Frames
    BY <1>a, SentFrame
  <2>3. Origin(y, EndFrame(id[c], sender[y][c] = "error"))
    BY DEF Origin, EndFrame, Frame
  <2> QED
    BY <2>1, <2>2, <2>3, <1>S
<1>8. ASSUME NEW y \in Sides, NEW c \in Conns, SenderCloses(y, c) \/ Finish(y, c) \/ Abort(y, c) PROVE G
  BY <1>8, <1>U DEF SenderCloses, Finish, Abort
<1>11. ASSUME handleStatusNew PROVE G
  BY <1>11, <1>T, <1>s DEF handleStatusNew, HasFrame
<1>12. ASSUME NEW y \in Sides, handleStatusKeep(y) PROVE G
  BY <1>12, <1>T, <1>s DEF handleStatusKeep, HasFrame
<1>13. ASSUME NEW y \in Sides, handleStatusEnd(y) PROVE G
  BY <1>13, <1>T, <1>s DEF handleStatusEnd, HasFrame
<1>14. ASSUME NEW y \in Sides, Reply(y) PROVE G
  <2>1. Send(y, EndFrame(receiver[y].id, FALSE)) /\ linkUp' = linkUp
    BY <1>14 DEF Reply, worker
  <2>2. EndFrame(receiver[y].id, FALSE) \in Frames
    <3>1. receiver[y].id \in Nat
      BY <1>a DEF MuxTypes, Receivers
    <3> QED
      BY <3>1 DEF EndFrame, Frame, Frames
  <2>3. Origin(y, EndFrame(receiver[y].id, FALSE))
    BY DEF Origin, EndFrame, Frame
  <2> QED
    BY <2>1, <2>2, <2>3, <1>S
<1>15. ASSUME NEW y \in Sides, CopyPiece(y) \/ ReceiverEnds(y) PROVE G
  BY <1>15, <1>U DEF CopyPiece, ReceiverEnds
<1>17. ASSUME MonitorTick \/ CloseIfNoSession \/ MonitorCloses PROVE G
  BY <1>17, <1>U DEF MonitorTick, CloseIfNoSession, MonitorCloses
<1>20. ASSUME MonitorDisconnects \/ LinkFails PROVE G
  BY <1>20 DEF MonitorDisconnects, LinkFails, Disconnect, G
<1> QED
  BY <1>2, <1>5, <1>6, <1>7, <1>8, <1>11, <1>12, <1>13, <1>14, <1>15, <1>17, <1>20
     DEF Next, SenderStep, ReceiverStep, MonitorStep, Application, G

\* Only a sender that works takes chunks from its input.
LEMMA SentMoves ==
  ASSUME MuxInv, Next, NEW x \in Sides, NEW c \in Conns
  PROVE  /\ sent'[x][c] # sent[x][c] => /\ sender[x][c] \in {"first", "copy"} /\ (x = "server" => sender[x][c] = "copy")
                                         /\ sender'[x][c] \notin Early
         /\ sent'[x][c] \in {sent[x][c], sent[x][c] + 1}
<1>a. sent \in [Sides -> [Conns -> Nat]] /\ sender \in [Sides -> [Conns -> States]] /\ "client" \in Sides /\ "server" # "client"
  BY DEF MuxInv, MuxTypes, Sides
<1> DEFINE G == /\ sent'[x][c] # sent[x][c] => /\ sender[x][c] \in {"first", "copy"} /\ (x = "server" => sender[x][c] = "copy")
                                         /\ sender'[x][c] \notin Early
         /\ sent'[x][c] \in {sent[x][c], sent[x][c] + 1}
<1>U. sent' = sent => G
  OBVIOUS
<1>5. ASSUME NEW d \in Conns, FirstPayload(d) PROVE G
  <2>1. sent' = sent \/ sent' = [sent EXCEPT !["client"][d] = @ + 1]
    BY <1>5 DEF FirstPayload, SendData
  <2>2. /\ sender["client"][d] = "first"
        /\ \/ sender' = [sender EXCEPT !["client"][d] = IF linkUp THEN "copy" ELSE "error"]
           \/ sender' = [sender EXCEPT !["client"][d] = "error"]
    BY <1>5 DEF FirstPayload
  <2>3. sender'["client"][d] \in {"copy", "error"}
    BY <2>2, <1>a
  <2>4. sent'[x][c] # sent[x][c] => x = "client" /\ c = d
    BY <2>1, <1>a
  <2>5. sent'[x][c] \in {sent[x][c], sent[x][c] + 1}
    BY <2>1, <1>a
  <2> QED
    BY <2>2, <2>3, <2>4, <2>5, <1>a DEF Early
<1>6. ASSUME NEW y \in Sides, NEW d \in Conns, Copy(y, d) PROVE G
  <2>1. sent' = sent \/ sent' = [sent EXCEPT ![y][d] = @ + 1]
    BY <1>6 DEF Copy, SendData
  <2>2. /\ sender[y][d] = "copy"
        /\ \/ sender' = [sender EXCEPT ![y][d] = IF linkUp THEN "copy" ELSE "end"]
           \/ sender' = [sender EXCEPT ![y][d] = "end"]
    BY <1>6 DEF Copy
  <2>3. sender'[y][d] \in {"copy", "end"}
    BY <2>2, <1>a
  <2>4. sent'[x][c] # sent[x][c] => x = y /\ c = d
    BY <2>1, <1>a
  <2>5. sent'[x][c] \in {sent[x][c], sent[x][c] + 1}
    BY <2>1, <1>a
  <2> QED
    BY <2>2, <2>3, <2>4, <2>5, <1>a DEF Early
<1> HIDE DEF G
<1>2. ASSUME NEW d \in Conns, DispatchBegins(d) \/ Allocate(d) \/ Launch(d) PROVE G
  BY <1>2, <1>U DEF DispatchBegins, Allocate, Launch, flows
<1>7. ASSUME NEW y \in Sides, NEW d \in Conns, WriterClose(y, d) \/ SenderCloses(y, d) \/ Finish(y, d) \/ Abort(y, d) PROVE G
  BY <1>7, <1>U DEF WriterClose, SenderCloses, Finish, Abort, flows
<1>11. ASSUME handleStatusNew PROVE G
  BY <1>11, <1>U DEF handleStatusNew, flows
<1>12. ASSUME NEW y \in Sides, handleStatusKeep(y) \/ handleStatusEnd(y) \/ Reply(y) \/ CopyPiece(y) \/ ReceiverEnds(y) PROVE G
  BY <1>12, <1>U DEF handleStatusKeep, handleStatusEnd, Reply, CopyPiece, ReceiverEnds, flows
<1>17. ASSUME MonitorTick \/ CloseIfNoSession \/ MonitorCloses \/ MonitorDisconnects \/ LinkFails PROVE G
  BY <1>17, <1>U DEF MonitorTick, CloseIfNoSession, MonitorCloses, MonitorDisconnects, LinkFails, flows
<1> QED
  BY <1>2, <1>5, <1>6, <1>7, <1>11, <1>12, <1>17 DEF Next, SenderStep, ReceiverStep, MonitorStep, Application, G

\* The data of a session is for the connection it is of.
LEMMA KeepIsOwn ==
  ASSUME MuxInv, NEW x \in Sides, handleStatusKeep(x), NEW f, f = NextFrame(x), NEW c, c = f.conn
  PROVE  /\ f \in Frames /\ f.status = "Keep" /\ f.num \in Nat /\ f.num > 0 /\ c \in Conns /\ f.id = id[c] /\ id[c] \in Ids
         /\ link[Peer(x)] # <<>> /\ f = link[Peer(x)][1] /\ linkUp /\ Take(x)
         /\ receiver[x].pc = "header" /\ receiver' = [receiver EXCEPT ![x] = IF Get(x, f.id) = None THEN Replying(f) ELSE Copying(c, f)]
         /\ Get(x, f.id) = IF ~closed[x] /\ table[x][id[c]] = c THEN c ELSE None
         /\ isData(f, c) /\ \A d : isData(f, d) => d = c
         /\ UNCHANGED <<tables, sender, flows, worker>>
         /\ 1 \in data(link[Peer(x)], c)
<1>1. link[Peer(x)] # <<>> /\ f.status = "Keep" /\ Take(x) /\ receiver[x].pc = "header"
  BY DEF handleStatusKeep, HasFrame
<1>2. Peer(x) \in Sides
  BY SidesAndPeers
<1>3. f \in Frames /\ 1 \in 1 .. Len(link[Peer(x)]) /\ f = link[Peer(x)][1]
  BY <1>1, NextIsAFrame DEF MuxInv
<1>4. c \in Conns /\ f.id = id[c] /\ id[c] \in Ids /\ f.num > 0
  <2>1. Marked(Peer(x), f)
    BY <1>2, <1>3 DEF MuxInv, Framed
  <2> QED
    BY <1>1, <2>1 DEF Marked
<1>5. linkUp
  BY <1>1, <1>2 DEF MuxInv, Framed
<1>6. f.num \in Nat
  BY <1>3, FrameFields
<1>7. Get(x, f.id) = IF ~closed[x] /\ table[x][id[c]] = c THEN c ELSE None
  <2>1. table[x][id[c]] \in Conns \cup {None}
    BY <1>4 DEF MuxInv, MuxTypes
  <2>2. table[x][id[c]] # None => table[x][id[c]] = c
    <3>1. table[x][id[c]] # None => id[table[x][id[c]]] = id[c]
      BY <1>4 DEF MuxInv, Placed
    <3>2. id[c] # 0 /\ \A d, e \in Conns : id[d] = id[e] /\ id[d] # 0 => d = e
      BY <1>4 DEF MuxInv, Numbered, Ids
    <3> QED
      BY <2>1, <3>1, <3>2, <1>4
  <2>3. closed[x] \in BOOLEAN
    BY DEF MuxInv, MuxTypes
  <2> QED
    BY <2>1, <2>2, <2>3, <1>4 DEF Get
<1>8. receiver' = [receiver EXCEPT ![x] = IF Get(x, f.id) = None THEN Replying(f) ELSE Copying(Get(x, f.id), f)]
      /\ UNCHANGED <<tables, sender, flows, worker>>
  BY DEF handleStatusKeep
<1>9. receiver' = [receiver EXCEPT ![x] = IF Get(x, f.id) = None THEN Replying(f) ELSE Copying(c, f)]
  BY <1>7, <1>8
<1>10. isData(f, c) /\ \A d : isData(f, d) => d = c
  BY <1>1, <1>4 DEF isData
<1>11. 1 \in data(link[Peer(x)], c)
  BY <1>3, <1>10 DEF data
<1> QED
  BY <1>1, <1>3, <1>4, <1>5, <1>6, <1>7, <1>8, <1>9, <1>10, <1>11

\* How a chunk of c comes to x.
ArrivesNew(x, c)  == x = "server" /\ handleStatusNew /\ NextFrame("server").conn = c /\ NextFrame("server").num # 0
ArrivesKeep(x, c) == handleStatusKeep(x) /\ NextFrame(x).conn = c /\ ~closed[x] /\ table[x][id[c]] = c

Stays(x, c)   == /\ got'[x][c] = got[x][c] /\ (copying(x, c)' <=> copying(x, c))
                 /\ copying(x, c) => receiver'[x].chunk = receiver[x].chunk
Written(x, c) == /\ copying(x, c) /\ ~copying(x, c)' /\ output[x][c] = "open"
                 /\ got'[x][c] = Append(got[x][c], receiver[x].chunk)
Lost(x, c)    == copying(x, c) /\ ~copying(x, c)' /\ output[x][c] # "open" /\ got'[x][c] = got[x][c]
Comes(x, c)   == /\ ~copying(x, c) /\ copying(x, c)' /\ got'[x][c] = got[x][c]
                 /\ receiver'[x].chunk = <<c, NextFrame(x).num>> /\ (ArrivesNew(x, c) \/ ArrivesKeep(x, c))

LEMMA HeaderIs == Header.pc = "header" /\ Header.id = 0 /\ [Header EXCEPT !.pc = "ended"].pc = "ended"
                  /\ [Header EXCEPT !.pc = "ended"].id = 0
  BY DEF Header

LEMMA Arrivals ==
  ASSUME MuxInv, Next, NEW x \in Sides, NEW c \in Conns
  PROVE  Stays(x, c) \/ Written(x, c) \/ Lost(x, c) \/ Comes(x, c)
<1> DEFINE G == Stays(x, c) \/ Written(x, c) \/ Lost(x, c) \/ Comes(x, c)
<1>a. MuxTypes /\ receiver \in [Sides -> Receivers] /\ got \in [Sides -> [Conns -> Seq(Conns \X Nat)]]
  BY DEF MuxInv, MuxTypes
<1>s. "client" \in Sides /\ "server" \in Sides /\ "client" # "server" /\ None \notin Conns
  BY SidesAndPeers, ConstantsAssumption
<1>h. Header.pc = "header" /\ [Header EXCEPT !.pc = "ended"].pc = "ended"
  BY HeaderIs
<1>U. ASSUME got' = got, receiver' = receiver PROVE G
  BY <1>U DEF Stays, copying
<1>V. ASSUME got' = got, receiver'[x] = receiver[x] PROVE G
  BY <1>V DEF Stays, copying
\* The receiver that was not copying a chunk is not now.
<1>W. ASSUME got' = got, receiver[x].pc # "copy", receiver'[x].pc # "copy" PROVE G
  BY <1>W DEF Stays, copying
<1> HIDE DEF G
<1>2. ASSUME NEW d \in Conns, DispatchBegins(d) \/ Allocate(d) \/ Launch(d) PROVE G
  BY <1>2, <1>U DEF DispatchBegins, Allocate, Launch, flows
<1>7. ASSUME NEW y \in Sides, NEW d \in Conns,
             FirstPayload(d) \/ Copy(y, d) \/ WriterClose(y, d) \/ SenderCloses(y, d) \/ Finish(y, d) \/ Abort(y, d) PROVE G
  BY <1>7, <1>U DEF FirstPayload, Copy, WriterClose, SenderCloses, Finish, Abort, flows
<1>11. ASSUME handleStatusNew PROVE G
  <2>1. PICK f, d : f = NextFrame("server") /\ d = f.conn
    OBVIOUS
  <2>2. /\ f \in Frames /\ d \in Conns /\ receiver'["client"] = receiver["client"] /\ receiver["server"].pc = "header"
        /\ receiver'["server"] = IF f.num = 0 THEN Header ELSE Copying(d, f)
        /\ got' = got
    BY <2>1, <1>11, NewArrives DEF flows
  <2>3. CASE x = "client"
    BY <2>3, <2>2, <1>V
  <2>4. CASE x = "server" /\ f.num = 0
    BY <2>4, <2>2, <1>W, <1>h
  <2>5. CASE x = "server" /\ f.num # 0
    <3>1. Copying(d, f).pc = "copy" /\ Copying(d, f).conn = d /\ Copying(d, f).chunk = <<f.conn, f.num>>
      BY <2>2, CopyingType
    <3>2. CASE c = d
      <4>1. ~copying(x, c) /\ got'[x][c] = got[x][c]
        BY <2>2, <2>5 DEF copying
      <4>2. copying(x, c)'
        BY <2>2, <2>5, <3>1, <3>2 DEF copying
      <4>3. receiver'[x].chunk = <<c, NextFrame(x).num>>
        BY <2>1, <2>2, <2>5, <3>1, <3>2
      <4>4. ArrivesNew(x, c)
        BY <1>11, <2>1, <2>5, <3>2 DEF ArrivesNew
      <4> QED
        BY <4>1, <4>2, <4>3, <4>4 DEF G, Comes
    <3>3. CASE c # d
      BY <3>1, <3>3, <2>2, <2>5 DEF G, Stays, copying
    <3> QED
      BY <3>2, <3>3
  <2> QED
    BY <2>3, <2>4, <2>5, SidesAndPeers
<1>12. ASSUME NEW y \in Sides, handleStatusKeep(y) PROVE G
  <2>1. PICK f, d : f = NextFrame(y) /\ d = f.conn
    OBVIOUS
  <2>2. /\ f \in Frames /\ d \in Conns
        /\ receiver' = [receiver EXCEPT ![y] = IF Get(y, f.id) = None THEN Replying(f) ELSE Copying(d, f)]
        /\ Get(y, f.id) = IF ~closed[y] /\ table[y][id[d]] = d THEN d ELSE None
        /\ got' = got /\ receiver[y].pc = "header"
    BY <2>1, <1>12, KeepIsOwn DEF flows
  <2>3. CASE x # y
    BY <2>3, <2>2, <1>V, <1>a
  <2>4. CASE x = y /\ Get(y, f.id) = None
    <3>1. receiver'[x] = Replying(f) /\ Replying(f).pc = "reply"
      BY <2>2, <2>4, <1>a, CopyingType
    <3> QED
      BY <3>1, <2>2, <2>4, <1>W
  <2>5. CASE x = y /\ Get(y, f.id) # None
    <3>1. Copying(d, f).pc = "copy" /\ Copying(d, f).conn = d /\ Copying(d, f).chunk = <<f.conn, f.num>>
      BY <2>2, CopyingType
    <3>0. receiver'[x] = Copying(d, f)
      BY <2>2, <2>5, <1>a
    <3>2. CASE c = d
      <4>1. ~copying(x, c) /\ got'[x][c] = got[x][c]
        BY <2>2, <2>5 DEF copying
      <4>2. copying(x, c)'
        BY <3>0, <3>1, <3>2 DEF copying
      <4>3. receiver'[x].chunk = <<c, NextFrame(x).num>>
        BY <2>1, <2>5, <3>0, <3>1, <3>2
      <4>4. ~closed[y] /\ table[y][id[d]] = d
        BY <2>2, <2>5
      <4>5. ArrivesKeep(x, c)
        BY <1>12, <2>1, <2>5, <3>2, <4>4 DEF ArrivesKeep
      <4> QED
        BY <4>1, <4>2, <4>3, <4>5 DEF G, Comes
    <3>3. CASE c # d
      BY <3>0, <3>1, <3>3, <2>2, <2>5 DEF G, Stays, copying
    <3> QED
      BY <3>2, <3>3
  <2> QED
    BY <2>3, <2>4, <2>5
<1>13. ASSUME NEW y \in Sides, handleStatusEnd(y) PROVE G
  BY <1>13, <1>U DEF handleStatusEnd
<1>14. ASSUME NEW y \in Sides, Reply(y) PROVE G
  <2>1. receiver' = [receiver EXCEPT ![y] = Header] /\ got' = got /\ receiver[y].pc = "reply"
    BY <1>14 DEF Reply, flows
  <2>2. CASE x # y
    BY <2>1, <2>2, <1>V, <1>a
  <2>3. CASE x = y
    BY <2>1, <2>3, <1>W, <1>h, <1>a
  <2> QED
    BY <2>2, <2>3
<1>15. ASSUME NEW y \in Sides, CopyPiece(y) PROVE G
  <2> DEFINE r == receiver[y]
  <2>1. r \in Receivers /\ r.pc = "copy" /\ r.conn \in Conns
    BY <1>15, <1>a DEF CopyPiece, MuxTypes
  <2>2. CASE output[y][r.conn] = "open" /\ r.left > 1 /\ got' = got /\ receiver' = [receiver EXCEPT ![y] = [r EXCEPT !.left = @ - 1]]
    <3>1. [r EXCEPT !.left = @ - 1].pc = "copy" /\ [r EXCEPT !.left = @ - 1].conn = r.conn /\ [r EXCEPT !.left = @ - 1].chunk = r.chunk
      <4> HIDE DEF r
      <4> QED
        BY <2>1 DEF Receivers
    <3>2. receiver'[x] = IF x = y THEN [r EXCEPT !.left = @ - 1] ELSE receiver[x]
      <4> HIDE DEF r
      <4> QED
        BY <2>2, <1>a
    <3>3. receiver'[x].pc = receiver[x].pc /\ receiver'[x].conn = receiver[x].conn /\ receiver'[x].chunk = receiver[x].chunk
      BY <3>1, <3>2
    <3> QED
      BY <3>3, <2>2 DEF G, Stays, copying
  <2>3. ASSUME NEW q, receiver' = [receiver EXCEPT ![y] = q], q.pc # "copy",
               \/ output[y][r.conn] = "open" /\ got' = [got EXCEPT ![y][r.conn] = Append(@, r.chunk)]
               \/ output[y][r.conn] # "open" /\ got' = got
        PROVE  G
    <3>1. receiver'[x] = IF x = y THEN q ELSE receiver[x]
      BY <2>3, <1>a
    <3>2. got'[x][c] = IF x = y /\ c = r.conn /\ output[y][r.conn] = "open" THEN Append(got[x][c], r.chunk) ELSE got[x][c]
      <4>1. CASE output[y][r.conn] = "open"
        <5>1. got' = [got EXCEPT ![y][r.conn] = Append(@, r.chunk)] /\ r.conn \in Conns
          BY <4>1, <2>3, <2>1
        <5> HIDE DEF r
        <5> QED
          BY <5>1, <4>1, <1>a
      <4>2. CASE output[y][r.conn] # "open"
        BY <4>2, <2>3
      <4> QED
        BY <4>1, <4>2
    <3>3. CASE x # y
      BY <3>1, <3>2, <3>3 DEF G, Stays, copying
    <3>4. CASE x = y /\ c # r.conn
      BY <3>1, <3>2, <3>4, <2>3 DEF G, Stays, copying
    <3>5. CASE x = y /\ c = r.conn
      <4>1. copying(x, c) /\ ~copying(x, c)'
        BY <3>1, <3>5, <2>1, <2>3 DEF copying
      <4> QED
        BY <4>1, <3>2, <3>5 DEF G, Written, Lost
    <3> QED
      BY <3>3, <3>4, <3>5
  <2>4. [r EXCEPT !.pc = "lost"].pc = "lost"
    <3> HIDE DEF r
    <3> QED
      BY <2>1 DEF Receivers
  <2>5. \/ /\ output[y][r.conn] = "open"
           /\ got' = IF r.left > 1 THEN got ELSE [got EXCEPT ![y][r.conn] = Append(@, r.chunk)]
           /\ receiver' = [receiver EXCEPT ![y] = IF r.left > 1 THEN [r EXCEPT !.left = @ - 1] ELSE Header]
        \/ /\ output[y][r.conn] # "open"
           /\ receiver' = [receiver EXCEPT ![y] = IF r.left > 1 THEN [r EXCEPT !.pc = "lost"] ELSE Header]
           /\ UNCHANGED got
    BY <1>15 DEF CopyPiece
  <2> HIDE DEF r
  <2>6. CASE r.left > 1
    BY <2>5, <2>6, <2>2, <2>3, <2>4
  <2>7. CASE ~(r.left > 1)
    BY <2>5, <2>7, <2>3, <1>h
  <2> QED
    BY <2>6, <2>7
<1>16. ASSUME NEW y \in Sides, ReceiverEnds(y) PROVE G
  <2>1. receiver' = [receiver EXCEPT ![y] = [Header EXCEPT !.pc = "ended"]] /\ got' = got /\ receiver[y].pc = "header"
    BY <1>16 DEF ReceiverEnds
  <2>2. CASE x # y
    BY <2>1, <2>2, <1>V, <1>a
  <2>3. CASE x = y
    BY <2>1, <2>3, <1>W, <1>h, <1>a
  <2> QED
    BY <2>2, <2>3
<1>17. ASSUME MonitorTick \/ CloseIfNoSession \/ MonitorCloses \/ MonitorDisconnects \/ LinkFails PROVE G
  BY <1>17, <1>U DEF MonitorTick, CloseIfNoSession, MonitorCloses, MonitorDisconnects, LinkFails, flows
<1> QED
  BY <1>2, <1>7, <1>11, <1>12, <1>13, <1>14, <1>15, <1>16, <1>17 DEF Next, SenderStep, ReceiverStep, MonitorStep, Application, G


-----------------------------------------------------------------------------
(* Frames stay marked *)

LEMMA LinkGoes ==
  ASSUME MuxInv, Next
  PROVE  linkUp' = linkUp \/ Disconnect
<1>1. ASSUME NEW c \in Conns, DispatchBegins(c) \/ Allocate(c) \/ Launch(c) \/ FirstPayload(c) PROVE linkUp' = linkUp
  BY <1>1 DEF DispatchBegins, Allocate, Launch, FirstPayload, worker
<1>2. ASSUME NEW x \in Sides, NEW c \in Conns, Copy(x, c) \/ WriterClose(x, c) \/ SenderCloses(x, c) \/ Finish(x, c) \/ Abort(x, c)
      PROVE  linkUp' = linkUp
  BY <1>2 DEF Copy, WriterClose, SenderCloses, Finish, Abort, worker
<1>3. ASSUME handleStatusNew PROVE linkUp' = linkUp
  BY <1>3 DEF handleStatusNew, worker
<1>4. ASSUME NEW x \in Sides, handleStatusKeep(x) \/ handleStatusEnd(x) \/ Reply(x) \/ CopyPiece(x) \/ ReceiverEnds(x)
      PROVE  linkUp' = linkUp
  BY <1>4 DEF handleStatusKeep, handleStatusEnd, Reply, CopyPiece, ReceiverEnds, worker
<1>5. ASSUME MonitorTick \/ CloseIfNoSession \/ MonitorCloses PROVE linkUp' = linkUp
  BY <1>5 DEF MonitorTick, CloseIfNoSession, MonitorCloses
<1>6. ASSUME MonitorDisconnects \/ LinkFails PROVE Disconnect
  BY <1>6 DEF MonitorDisconnects, LinkFails
<1> QED
  BY <1>1, <1>2, <1>3, <1>4, <1>5, <1>6 DEF Next, SenderStep, ReceiverStep, MonitorStep, Application

LEMMA LostStep ==
  ASSUME MuxInv, Next
  PROVE  ~linkUp' => \A x \in Sides : link'[x] = <<>>
<1>1. CASE Disconnect
  BY <1>1 DEF Disconnect
<1>2. CASE linkUp' = linkUp
  <2> SUFFICES ASSUME ~linkUp, NEW x \in Sides PROVE link'[x] = <<>>
    BY <1>2
  <2>1. link[x] = <<>>
    BY DEF MuxInv, Framed
  <2> QED
    BY <2>1, LinkMoves
<1> QED
  BY <1>1, <1>2, LinkGoes

\* Frames that are there after a step were there before, or are what a sender made.
LEMMA OldFrames ==
  ASSUME MuxInv, Next, NEW x \in Sides, NEW i \in 1 .. Len(link'[x])
  PROVE  /\ link'[x][i] \in Frames
         /\ \/ \E j \in 1 .. Len(link[x]) : link'[x][i] = link[x][j]
            \/ Origin(x, link'[x][i]) /\ linkUp
<1>a. link[x] \in Seq(Frames)
  BY DEF MuxInv, MuxTypes
<1>1. CASE link'[x] = link[x]
  BY <1>1, <1>a
<1>2. CASE link'[x] = <<>>
  BY <1>2
<1>3. CASE link[x] # <<>> /\ link'[x] = Tail(link[x])
  <2>1. PICK v : v = Tail(link[x])
    OBVIOUS
  <2>2. \A k \in 1 .. Len(v) : v[k] = link[x][k + 1] /\ k + 1 \in 1 .. Len(link[x])
    BY <2>1, <1>3, <1>a, TakeFrame
  <2>3. link'[x][i] = link[x][i + 1] /\ i + 1 \in 1 .. Len(link[x])
    BY <2>1, <2>2, <1>3
  <2>4. link[x][i + 1] \in Frames
    BY <2>3, <1>a
  <2> QED
    BY <2>3, <2>4
<1>4. ASSUME NEW f \in Frames, link'[x] = Append(link[x], f), linkUp, Origin(x, f)
      PROVE  /\ link'[x][i] \in Frames
             /\ \/ \E j \in 1 .. Len(link[x]) : link'[x][i] = link[x][j]
                \/ Origin(x, link'[x][i]) /\ linkUp
  <2>1. PICK v : v = Append(link[x], f)
    OBVIOUS
  <2>2. /\ Len(v) = Len(link[x]) + 1 /\ Len(link[x]) \in Nat
        /\ \A k \in 1 .. Len(link[x]) : v[k] = link[x][k]
        /\ v[Len(link[x]) + 1] = f
    BY <2>1, <1>a, AppendFrames
  <2>3. i \in 1 .. Len(v) /\ link'[x][i] = v[i]
    BY <2>1, <1>4
  <2>4. CASE i \in 1 .. Len(link[x])
    <3>1. link'[x][i] = link[x][i] /\ link[x][i] \in Frames
      BY <2>2, <2>3, <2>4, <1>a
    <3> QED
      BY <3>1, <2>4
  <2>5. CASE i = Len(link[x]) + 1
    <3>1. link'[x][i] = f
      BY <2>2, <2>3, <2>5
    <3> QED
      BY <3>1, <1>4
  <2>6. i \in 1 .. Len(link[x]) \/ i = Len(link[x]) + 1
    BY <2>2, <2>3
  <2> QED
    BY <2>4, <2>5, <2>6
<1> QED
  BY <1>1, <1>2, <1>3, <1>4, LinkMoves

\* What a sender makes is marked.
LEMMA OriginMarked ==
  ASSUME MuxInv, NEW x \in Sides, NEW f \in Frames, Origin(x, f)
  PROVE  Marked(x, f)
<1>1. CASE f.status = "End"
  BY <1>1 DEF Marked
<1>2. CASE f.status = "New" /\ x = "client" /\ f.conn \in Conns /\ f.id = id[f.conn] /\ sender["client"][f.conn] = "first"
           /\ f.num \in {0, sent["client"][f.conn] + 1}
  <2>1. id[f.conn] \in Ids
    BY <1>2, HasId DEF MuxInv
  <2>2. sent["client"][f.conn] = 0 /\ sender["server"][f.conn] = "none"
    BY <1>2 DEF MuxInv, Framed, Begun, Early
  <2> QED
    BY <1>2, <2>1, <2>2 DEF Marked
<1>3. CASE f.status = "Keep" /\ f.conn \in Conns /\ f.id = id[f.conn] /\ sender[x][f.conn] = "copy"
           /\ f.num = sent[x][f.conn] + 1
  <2>1. id[f.conn] \in Ids
    BY <1>3, HasId, SidesAndPeers DEF MuxInv
  <2>2. sent[x][f.conn] \in Nat
    BY <1>3 DEF MuxInv, MuxTypes
  <2>3. f.num > 0
    BY <1>3, <2>2
  <2> QED
    BY <1>3, <2>1, <2>3 DEF Marked
<1> QED
  BY <1>1, <1>2, <1>3 DEF Origin

LEMMA WasMarked ==
  ASSUME MuxInv, Next, NEW x \in Sides, NEW i \in 1 .. Len(link'[x]), NEW f, f = link'[x][i]
  PROVE  f \in Frames /\ Marked(x, f)
<1>1. f \in Frames /\ ((\E j \in 1 .. Len(link[x]) : f = link[x][j]) \/ Origin(x, f))
  BY OldFrames
<1>2. ASSUME NEW j \in 1 .. Len(link[x]), f = link[x][j] PROVE Marked(x, f)
  BY <1>2 DEF MuxInv, Framed
<1> QED
  BY <1>1, <1>2, OriginMarked

LEMMA MarkedStep ==
  ASSUME MuxInv, Next, NEW x \in Sides, NEW i \in 1 .. Len(link'[x]), NEW f, f = link'[x][i]
  PROVE  Marked(x, f)'
<1>1. f \in Frames /\ Marked(x, f) /\ f.conn \in Conns \cup {None}
  BY WasMarked, FrameFields
<1>2. CASE Steady
  <2>1. id' = id /\ \A c \in Conns : sender'["server"][c] = "none" <=> sender["server"][c] = "none"
    BY <1>2 DEF Steady, SendersGoOn
  <2> QED
    BY <2>1, <1>1 DEF Marked
<1>3. ASSUME NEW c \in Conns, Allocate(c), ~closed["client"] PROVE Marked(x, f)'
  <2>1. /\ id[c] = 0 /\ \A d \in Conns : id'[d] = IF d = c THEN count + 1 ELSE id[d]
        /\ \A d \in Conns : sender'["server"][d] = sender["server"][d]
    BY <1>3, AllocateOpen, SidesAndPeers
  <2>2. f.status # "End" => id'[f.conn] = id[f.conn]
    BY <2>1, <1>1 DEF Marked, Ids
  <2> QED
    BY <2>1, <2>2, <1>1 DEF Marked
<1>4. ASSUME NEW c \in Conns, Allocate(c), closed["client"] PROVE Steady
  BY <1>4, AllocateClosed
<1>5. CASE handleStatusNew
  <2>1. PICK g, c : g = NextFrame("server") /\ c = g.conn
    OBVIOUS
  <2>2. /\ g \in Frames /\ g.status = "New" /\ c \in Conns /\ link["client"] # <<>> /\ g = link["client"][1]
        /\ link'["client"] = Tail(link["client"]) /\ id' = id
        /\ \A d \in Conns : sender'["server"][d] = IF d = c THEN "copy" ELSE sender["server"][d]
    BY <2>1, <1>5, NewArrives, SidesAndPeers
  <2>3. f.status = "New" => f.conn # c
    <3> SUFFICES ASSUME f.status = "New", f.conn = c PROVE FALSE
      OBVIOUS
    <3>0. x = "client" /\ "client" \in Sides
      BY <1>1 DEF Marked, Sides
    <3>1. PICK v : v = Tail(link["client"])
      OBVIOUS
    <3>2. /\ \A k \in 1 .. Len(v) : v[k] = link["client"][k + 1] /\ k + 1 \in 1 .. Len(link["client"])
          /\ 1 \in 1 .. Len(link["client"])
      <4>1. link["client"] \in Seq(Frames)
        BY <3>0 DEF MuxInv, MuxTypes
      <4> QED
        BY <3>1, <2>2, <4>1, TakeFrame
    <3>3. f = link["client"][i + 1] /\ i + 1 \in 1 .. Len(link["client"])
      BY <3>0, <3>1, <3>2, <2>2
    <3>4. 1 \in news(link["client"], c) /\ i + 1 \in news(link["client"], c)
      BY <3>2, <3>3, <2>1, <2>2 DEF news, isNew
    <3>5. 1 = i + 1
      BY <3>4, <2>2 DEF MuxInv, Framed, Begun
    <3>6. i \in Nat /\ i >= 1
      BY <3>0, <2>2, <3>1, <3>2
    <3> QED
      BY <3>5, <3>6
  <2> QED
    BY <1>1, <2>2, <2>3 DEF Marked
<1> QED
  BY <1>2, <1>3, <1>4, <1>5, SteadySteps

-----------------------------------------------------------------------------
(* What a step does to the chunks of one connection on one way *)

Rests(x, c)    == link'[x] = link[x] /\ sent'[x][c] = sent[x][c]
Gone(x)        == link'[x] = <<>> /\ ~linkUp'
Wasted(x)      == link'[x] = link[x] /\ ~linkUp'
Adds(x, c, f)  == /\ link'[x] = Append(link[x], f) /\ linkUp /\ Origin(x, f)
                  /\ sent'[x][c] = IF isData(f, c) THEN sent[x][c] + 1 ELSE sent[x][c]
                  /\ isData(f, c) => f.num = sent[x][c] + 1
                  /\ f.status # "End" /\ f.conn = c => sender'[x][c] \notin Early
Loses(x, c)    == /\ link[x] # <<>> /\ link'[x] = Tail(link[x]) /\ sent'[x][c] = sent[x][c]
                  /\ \/ x = "client" /\ handleStatusNew
                     \/ handleStatusKeep(Peer(x))
                     \/ handleStatusEnd(Peer(x))

LEMMA Flows ==
  ASSUME MuxInv, Next, NEW x \in Sides, NEW c \in Conns
  PROVE  Rests(x, c) \/ Gone(x) \/ Wasted(x) \/ Loses(x, c) \/ \E f \in Frames : Adds(x, c, f)
<1> DEFINE G == Rests(x, c) \/ Gone(x) \/ Wasted(x) \/ Loses(x, c) \/ \E f \in Frames : Adds(x, c, f)
<1>a. MuxTypes /\ Numbered /\ Framed /\ sent \in [Sides -> [Conns -> Nat]] /\ sender \in [Sides -> [Conns -> States]]
  BY DEF MuxInv, MuxTypes
<1>s. "client" \in Sides /\ "server" \in Sides /\ "client" # "server"
  BY SidesAndPeers
<1>U. link' = link /\ sent' = sent => G
  BY DEF Rests
<1>S. ASSUME NEW y \in Sides, NEW f \in Frames, Send(y, f), Origin(y, f), linkUp' = linkUp,
             linkUp => \A d \in Conns : /\ sent'[y][d] = IF isData(f, d) THEN sent[y][d] + 1 ELSE sent[y][d]
                                        /\ isData(f, d) => f.num = sent[y][d] + 1
                                        /\ f.status # "End" /\ f.conn = d => sender'[y][d] \notin Early,
             \A d \in Conns, z \in Sides : z # y => sent'[z][d] = sent[z][d]
      PROVE  G
  <2>1. /\ x # y => link'[x] = link[x]
        /\ IF linkUp THEN link'[y] = Append(link[y], f) ELSE link'[y] = link[y]
    BY <1>S, <1>a, SendSends
  <2>2. CASE x # y
    BY <2>1, <2>2, <1>S DEF Rests
  <2>3. CASE x = y /\ linkUp
    <3>1. Adds(x, c, f)
      BY <2>1, <2>3, <1>S DEF Adds
    <3> QED
      BY <3>1
  <2>4. CASE x = y /\ ~linkUp
    BY <2>1, <2>4, <1>S DEF Wasted
  <2> QED
    BY <2>2, <2>3, <2>4
<1>T. ASSUME NEW y \in Sides, Take(y), link[Peer(y)] # <<>>, sent' = sent,
             \/ y = "server" /\ handleStatusNew
             \/ handleStatusKeep(y)
             \/ handleStatusEnd(y)
      PROVE  G
  <2>1. link'[y] = link[y] /\ link'[Peer(y)] = Tail(link[Peer(y)]) /\ (x = y \/ x = Peer(y))
    BY <1>T, <1>a, TakeTakes
  <2>2. CASE x = y
    BY <2>1, <2>2, <1>T DEF Rests
  <2>3. CASE x = Peer(y)
    <3>1. Peer(x) = y /\ (y = "server" => x = "client")
      BY <2>3, SidesAndPeers
    <3>2. Loses(x, c)
      BY <2>1, <2>3, <3>1, <1>T DEF Loses
    <3> QED
      BY <3>2
  <2> QED
    BY <2>1, <2>2, <2>3
<1> HIDE DEF G
\* A chunk sent, or none.
<1>d. ASSUME NEW y \in Sides, NEW e \in Conns, sent' = [sent EXCEPT ![y][e] = @ + 1] \/ sent' = sent
      PROVE  /\ \A d \in Conns : d # e => sent'[y][d] = sent[y][d]
             /\ \A d \in Conns, z \in Sides : z # y => sent'[z][d] = sent[z][d]
             /\ sent' = [sent EXCEPT ![y][e] = @ + 1] => sent'[y][e] = sent[y][e] + 1
  BY <1>d, <1>a
<1>2. ASSUME NEW d \in Conns, DispatchBegins(d) \/ Allocate(d) \/ Launch(d) PROVE G
  BY <1>2, <1>U DEF DispatchBegins, Allocate, Launch, flows
<1>5. ASSUME NEW d \in Conns, FirstPayload(d) PROVE G
  <2>1. \/ /\ Send("client", Frame(id[d], "New", d, sent["client"][d] + 1, FALSE))
           /\ sent' = [sent EXCEPT !["client"][d] = @ + 1]
        \/ Send("client", Frame(id[d], "New", d, 0, FALSE)) /\ sent' = sent
        \/ link' = link /\ sent' = sent
    BY <1>5 DEF FirstPayload, SendData
  <2>2. Frame(id[d], "New", d, sent["client"][d] + 1, FALSE) \in Frames /\ Frame(id[d], "New", d, 0, FALSE) \in Frames
    BY <1>a, <1>s, SentFrame
  <2>3. linkUp' = linkUp /\ sender["client"][d] = "first" /\ sent["client"][d] \in Nat
    BY <1>5, <1>a, <1>s DEF FirstPayload, worker
  <2>4. linkUp => sender'["client"][d] \notin Early
    <3>1. \/ sender' = [sender EXCEPT !["client"][d] = IF linkUp THEN "copy" ELSE "error"]
          \/ sender' = [sender EXCEPT !["client"][d] = "error"]
      BY <1>5 DEF FirstPayload
    <3>2. sender'["client"][d] \in {"copy", "error"}
      BY <3>1, <1>a, <1>s
    <3> QED
      BY <3>2 DEF Early
  <2>5. CASE /\ Send("client", Frame(id[d], "New", d, sent["client"][d] + 1, FALSE))
             /\ sent' = [sent EXCEPT !["client"][d] = @ + 1]
    <3>1. PICK f \in Frames : f = Frame(id[d], "New", d, sent["client"][d] + 1, FALSE)
      BY <2>2
    <3>2. /\ f.status = "New" /\ f.conn = d /\ f.num = sent["client"][d] + 1 /\ isData(f, d) /\ \A e : isData(f, e) => e = d
          /\ Origin("client", f)
      BY <3>1, <2>3 DEF Frame, isData, Origin
    <3>3. /\ \A e \in Conns : e # d => sent'["client"][e] = sent["client"][e]
          /\ sent'["client"][d] = sent["client"][d] + 1
          /\ \A e \in Conns, z \in Sides : z # "client" => sent'[z][e] = sent[z][e]
      BY <2>5, <1>d, <1>s
    <3>4. linkUp => \A e \in Conns : /\ sent'["client"][e] = IF isData(f, e) THEN sent["client"][e] + 1 ELSE sent["client"][e]
                                     /\ isData(f, e) => f.num = sent["client"][e] + 1
                                     /\ f.status # "End" /\ f.conn = e => sender'["client"][e] \notin Early
      BY <3>2, <3>3, <2>4
    <3>5. Send("client", f)
      BY <3>1, <2>5
    <3> QED
      BY <3>2, <3>3, <3>4, <3>5, <2>3, <1>S, <1>s
  <2>6. CASE Send("client", Frame(id[d], "New", d, 0, FALSE)) /\ sent' = sent
    <3>1. PICK f \in Frames : f = Frame(id[d], "New", d, 0, FALSE)
      BY <2>2
    <3>2. /\ f.status = "New" /\ f.conn = d /\ \A e : ~isData(f, e)
          /\ Origin("client", f)
      BY <3>1, <2>3 DEF Frame, isData, Origin
    <3> QED
      BY <3>1, <3>2, <2>3, <2>4, <2>6, <1>S, <1>s
  <2> QED
    BY <2>1, <2>5, <2>6, <1>U
<1>6. ASSUME NEW y \in Sides, NEW d \in Conns, Copy(y, d) PROVE G
  <2>1. \/ /\ Send(y, Frame(id[d], "Keep", d, sent[y][d] + 1, FALSE))
           /\ sent' = [sent EXCEPT ![y][d] = @ + 1]
        \/ link' = link /\ sent' = sent
    BY <1>6 DEF Copy, SendData
  <2>2. Frame(id[d], "Keep", d, sent[y][d] + 1, FALSE) \in Frames
    BY <1>a, <1>s, SentFrame
  <2>3. linkUp' = linkUp /\ sender[y][d] = "copy" /\ sent[y][d] \in Nat
    BY <1>6, <1>a DEF Copy, worker
  <2>4. sender'[y][d] \notin Early
    <3>1. \/ sender' = [sender EXCEPT ![y][d] = IF linkUp THEN "copy" ELSE "end"]
          \/ sender' = [sender EXCEPT ![y][d] = "end"]
      BY <1>6 DEF Copy
    <3>2. sender'[y][d] \in {"copy", "end"}
      BY <3>1, <1>a
    <3> QED
      BY <3>2 DEF Early
  <2>5. CASE /\ Send(y, Frame(id[d], "Keep", d, sent[y][d] + 1, FALSE))
             /\ sent' = [sent EXCEPT ![y][d] = @ + 1]
    <3>1. PICK f \in Frames : f = Frame(id[d], "Keep", d, sent[y][d] + 1, FALSE)
      BY <2>2
    <3>2. /\ f.conn = d /\ f.num = sent[y][d] + 1 /\ isData(f, d) /\ \A e : isData(f, e) => e = d
          /\ Origin(y, f)
      BY <3>1, <2>3 DEF Frame, isData, Origin
    <3>3. /\ \A e \in Conns : e # d => sent'[y][e] = sent[y][e]
          /\ sent'[y][d] = sent[y][d] + 1
          /\ \A e \in Conns, z \in Sides : z # y => sent'[z][e] = sent[z][e]
      BY <2>5, <1>d, <1>s
    <3>4. linkUp => \A e \in Conns : /\ sent'[y][e] = IF isData(f, e) THEN sent[y][e] + 1 ELSE sent[y][e]
                                     /\ isData(f, e) => f.num = sent[y][e] + 1
                                     /\ f.status # "End" /\ f.conn = e => sender'[y][e] \notin Early
      BY <3>2, <3>3, <2>4
    <3>5. Send(y, f)
      BY <3>1, <2>5
    <3> QED
      BY <3>2, <3>3, <3>4, <3>5, <2>3, <1>S, <1>s
  <2> QED
    BY <2>1, <2>5, <1>U
<1>7. ASSUME NEW y \in Sides, NEW d \in Conns, WriterClose(y, d) PROVE G
  <2>1. Send(y, EndFrame(id[d], sender[y][d] = "error")) /\ linkUp' = linkUp /\ sent' = sent
    BY <1>7 DEF WriterClose, worker, flows
  <2>2. PICK f \in Frames : f = EndFrame(id[d], sender[y][d] = "error")
    BY <1>a, SentFrame
  <2>3. f.status = "End" /\ Origin(y, f) /\ \A e : ~isData(f, e)
    BY <2>2 DEF Origin, EndFrame, Frame, isData
  <2> QED
    BY <2>1, <2>2, <2>3, <1>S
<1>8. ASSUME NEW y \in Sides, NEW d \in Conns, SenderCloses(y, d) \/ Finish(y, d) \/ Abort(y, d) PROVE G
  BY <1>8, <1>U DEF SenderCloses, Finish, Abort
<1>11. ASSUME handleStatusNew PROVE G
  BY <1>11, <1>T, <1>s DEF handleStatusNew, HasFrame, flows
<1>12. ASSUME NEW y \in Sides, handleStatusKeep(y) PROVE G
  <2>1. Take(y) /\ link[Peer(y)] # <<>> /\ sent' = sent
    BY <1>12 DEF handleStatusKeep, HasFrame, flows
  <2> QED
    BY <1>12, <2>1, <1>T
<1>13. ASSUME NEW y \in Sides, handleStatusEnd(y) PROVE G
  <2>1. Take(y) /\ link[Peer(y)] # <<>> /\ sent' = sent
    BY <1>13 DEF handleStatusEnd, HasFrame
  <2> QED
    BY <1>13, <2>1, <1>T
<1>14. ASSUME NEW y \in Sides, Reply(y) PROVE G
  <2>1. Send(y, EndFrame(receiver[y].id, FALSE)) /\ linkUp' = linkUp /\ sent' = sent
    BY <1>14 DEF Reply, worker, flows
  <2>2. PICK f \in Frames : f = EndFrame(receiver[y].id, FALSE)
    <3>1. receiver[y].id \in Nat
      BY <1>a DEF MuxTypes, Receivers
    <3> QED
      BY <3>1 DEF EndFrame, Frame, Frames
  <2>3. f.status = "End" /\ Origin(y, f) /\ \A e : ~isData(f, e)
    BY <2>2 DEF Origin, EndFrame, Frame, isData
  <2> QED
    BY <2>1, <2>2, <2>3, <1>S
<1>15. ASSUME NEW y \in Sides, CopyPiece(y) \/ ReceiverEnds(y) PROVE G
  BY <1>15, <1>U DEF CopyPiece, ReceiverEnds
<1>17. ASSUME MonitorTick \/ CloseIfNoSession \/ MonitorCloses PROVE G
  BY <1>17, <1>U DEF MonitorTick, CloseIfNoSession, MonitorCloses, flows
<1>20. ASSUME MonitorDisconnects \/ LinkFails PROVE G
  BY <1>20 DEF MonitorDisconnects, LinkFails, Disconnect, G, Gone
<1> QED
  BY <1>2, <1>5, <1>6, <1>7, <1>8, <1>11, <1>12, <1>13, <1>14, <1>15, <1>17, <1>20
     DEF Next, SenderStep, ReceiverStep, MonitorStep, Application, G

\* Frames of a connection appear when one is added, ...
LEMMA FramesCome ==
  ASSUME MuxInv, Next, NEW x \in Sides, NEW c \in Conns
  PROVE  /\ data(link[x], c) = {} /\ data(link'[x], c) # {} => \E f \in Frames : Adds(x, c, f) /\ isData(f, c)
         /\ news(link[x], c) = {} /\ news(link'[x], c) # {} => \E f \in Frames : Adds(x, c, f) /\ isNew(f, c)
<1>a. link[x] \in Seq(Frames)
  BY DEF MuxInv, MuxTypes
<1> DEFINE G == /\ data(link[x], c) = {} /\ data(link'[x], c) # {} => \E f \in Frames : Adds(x, c, f) /\ isData(f, c)
                /\ news(link[x], c) = {} /\ news(link'[x], c) # {} => \E f \in Frames : Adds(x, c, f) /\ isNew(f, c)
<1>1. CASE link'[x] = link[x]
  BY <1>1
<1>2. CASE link'[x] = <<>>
  <2>1. \A k \in 1 .. Len(<<>>) : FALSE
    OBVIOUS
  <2>2. data(link'[x], c) = {} /\ news(link'[x], c) = {}
    BY <1>2, <2>1 DEF data, news
  <2> QED
    BY <2>2
<1>3. CASE link[x] # <<>> /\ link'[x] = Tail(link[x])
  <2>1. PICK v : v = Tail(link[x])
    OBVIOUS
  <2>2. \A i : i \in data(v, c) <=> i \in 1 .. Len(v) /\ i + 1 \in data(link[x], c)
    BY <2>1, <1>3, <1>a, TakeFrame
  <2>3. \A i : i \in news(v, c) <=> i \in 1 .. Len(v) /\ i + 1 \in news(link[x], c)
    BY <2>1, <1>3, <1>a, TakeFrame
  <2> QED
    BY <2>1, <2>2, <2>3, <1>3
<1>4. ASSUME NEW f \in Frames, Adds(x, c, f) PROVE G
  <2>1. PICK v : v = Append(link[x], f)
    OBVIOUS
  <2>2. link'[x] = v
    BY <2>1, <1>4 DEF Adds
  <2>3. \A j : j \in data(v, c) <=> j \in data(link[x], c) \/ (j = Len(link[x]) + 1 /\ isData(f, c))
    BY <2>1, <1>a, AppendData
  <2>4. \A j : j \in news(v, c) <=> j \in news(link[x], c) \/ (j = Len(link[x]) + 1 /\ isNew(f, c))
    BY <2>1, <1>a, AppendNews
  <2>5. data(link[x], c) = {} /\ data(v, c) # {} => isData(f, c)
    BY <2>3
  <2>6. news(link[x], c) = {} /\ news(v, c) # {} => isNew(f, c)
    BY <2>4
  <2> QED
    BY <2>2, <2>5, <2>6, <1>4
<1> QED
  BY <1>1, <1>2, <1>3, <1>4, Flows DEF Rests, Gone, Wasted, Loses

\* ... and the New frame stays first, and alone.
LEMMA NewFirst ==
  ASSUME MuxInv, Next, NEW c \in Conns
  PROVE  /\ \A j \in news(link'["client"], c), i \in data(link'["client"], c) : j <= i
         /\ \A i, j \in news(link'["client"], c) : i = j
<1> DEFINE w == link["client"]
           G == /\ \A j \in news(link'["client"], c), i \in data(link'["client"], c) : j <= i
                /\ \A i, j \in news(link'["client"], c) : i = j
<1>a. w \in Seq(Frames) /\ "client" \in Sides
  BY DEF MuxInv, MuxTypes, Sides
<1>b. /\ \A j \in news(w, c), i \in data(w, c) : j <= i
      /\ \A i, j \in news(w, c) : i = j
  BY DEF MuxInv, Framed, Begun
<1>1. CASE link'["client"] = w
  BY <1>1, <1>b
<1>2. CASE link'["client"] = <<>>
  <2>1. \A k \in 1 .. Len(<<>>) : FALSE
    OBVIOUS
  <2>2. news(link'["client"], c) = {}
    BY <1>2, <2>1 DEF news
  <2> QED
    BY <2>2
<1>3. CASE w # <<>> /\ link'["client"] = Tail(w)
  <2>1. PICK v : v = Tail(w)
    OBVIOUS
  <2>2. \A i : i \in data(v, c) => i \in Nat /\ i + 1 \in data(w, c)
    <3>1. \A i : i \in data(v, c) <=> i \in 1 .. Len(v) /\ i + 1 \in data(w, c)
      BY <2>1, <1>3, <1>a, TakeFrame
    <3> QED
      BY <3>1
  <2>3. \A i : i \in news(v, c) => i \in Nat /\ i + 1 \in news(w, c)
    <3>1. \A i : i \in news(v, c) <=> i \in 1 .. Len(v) /\ i + 1 \in news(w, c)
      BY <2>1, <1>3, <1>a, TakeFrame
    <3> QED
      BY <3>1
  <2>4. \A j \in news(v, c), i \in data(v, c) : j <= i
    <3> TAKE j \in news(v, c), i \in data(v, c)
    <3>1. j + 1 <= i + 1 /\ i \in Nat /\ j \in Nat
      BY <2>2, <2>3, <1>b
    <3> QED
      BY <3>1
  <2>5. \A i, j \in news(v, c) : i = j
    <3> TAKE i, j \in news(v, c)
    <3>1. j + 1 = i + 1 /\ i \in Nat /\ j \in Nat
      BY <2>2, <2>3, <1>b
    <3> QED
      BY <3>1
  <2> QED
    BY <2>1, <2>4, <2>5, <1>3
<1>4. ASSUME NEW f \in Frames, Adds("client", c, f) PROVE G
  <2>1. PICK v : v = Append(w, f)
    OBVIOUS
  <2>2. link'["client"] = v
    BY <2>1, <1>4 DEF Adds
  <2>3. \A j : j \in data(v, c) <=> j \in data(w, c) \/ (j = Len(w) + 1 /\ isData(f, c))
    BY <2>1, <1>a, AppendData
  <2>4. \A j : j \in news(v, c) <=> j \in news(w, c) \/ (j = Len(w) + 1 /\ isNew(f, c))
    BY <2>1, <1>a, AppendNews
  <2>5. isNew(f, c) => news(w, c) = {} /\ data(w, c) = {}
    <3>1. isNew(f, c) => sender["client"][c] = "first"
      BY <1>4 DEF Adds, Origin, isNew
    <3> QED
      BY <3>1 DEF MuxInv, Framed, Begun, Early
  <2>6. \A j \in news(w, c) : j \in Nat /\ j <= Len(w)
    BY <1>a, Positions
  <2>7. Len(w) \in Nat
    BY <1>a
  <2> HIDE DEF w
  <2>8. \A j \in news(v, c), i \in data(v, c) : j <= i
    <3> SUFFICES ASSUME NEW j \in news(v, c), NEW i \in data(v, c) PROVE j <= i
      OBVIOUS
    <3>1. CASE isNew(f, c)
      <4>1. i = Len(w) + 1 /\ j = Len(w) + 1
        BY <3>1, <2>3, <2>4, <2>5
      <4> QED
        BY <4>1, <2>7
    <3>2. CASE j \in news(w, c) /\ i = Len(w) + 1
      BY <3>2, <2>6, <2>7
    <3>3. CASE j \in news(w, c) /\ i \in data(w, c)
      BY <3>3, <1>b
    <3> QED
      BY <3>1, <3>2, <3>3, <2>3, <2>4
  <2>9. \A i, j \in news(v, c) : i = j
    <3>1. CASE isNew(f, c)
      BY <3>1, <2>4, <2>5
    <3>2. CASE ~(isNew(f, c))
      BY <3>2, <2>4, <1>b
    <3> QED
      BY <3>1, <3>2
  <2> QED
    BY <2>2, <2>8, <2>9
<1> QED
  BY <1>1, <1>2, <1>3, <1>4, <1>a, Flows DEF Rests, Gone, Wasted, Loses

LEMMA BegunStep ==
  ASSUME MuxInv, Next, NEW c \in Conns
  PROVE  Begun(c)'
<1>b. Begun(c) /\ Placed
  BY DEF MuxInv, Framed
<1>s. "client" \in Sides /\ "server" \in Sides /\ "client" # "server" /\ Peer("client") = "server" /\ Peer("server") = "client"
      /\ \A x \in Sides : x = "client" \/ x = "server"
  BY SidesAndPeers
\* The senders before.
<1>1. \/ handleStatusNew /\ NextFrame("server").conn = c
      \/ /\ sender'["client"][c] \in Early => sender["client"][c] \in Early
         /\ sender'["server"][c] = "none" <=> sender["server"][c] = "none"
  <2>1. CASE Steady
    BY <2>1 DEF Steady, SendersGoOn
  <2>2. ASSUME NEW d \in Conns, Allocate(d), ~closed["client"]
        PROVE  /\ sender'["client"][c] \in Early => sender["client"][c] \in Early
               /\ sender'["server"][c] = "none" <=> sender["server"][c] = "none"
    <3>1. /\ \A x \in Sides, e \in Conns : sender'[x][e] = IF x = "client" /\ e = d THEN "allocated" ELSE sender[x][e]
          /\ sender["client"][d] = "dispatching"
      BY <2>2, AllocateOpen
    <3> QED
      BY <3>1, <1>s DEF Early
  <2>3. ASSUME NEW d \in Conns, Allocate(d), closed["client"] PROVE Steady
    BY <2>3, AllocateClosed
  <2>4. ASSUME handleStatusNew, NextFrame("server").conn # c
        PROVE  /\ sender'["client"][c] = sender["client"][c]
               /\ sender'["server"][c] = sender["server"][c]
    <3>1. PICK f, d : f = NextFrame("server") /\ d = f.conn
      OBVIOUS
    <3>2. \A x \in Sides, e \in Conns : sender'[x][e] = IF x = "server" /\ e = d THEN "copy" ELSE sender[x][e]
      BY <3>1, <2>4, NewArrives
    <3> QED
      BY <3>1, <3>2, <2>4, <1>s
  <2> QED
    BY <2>1, <2>2, <2>3, <2>4, SteadySteps
<1>2. /\ sender'["client"][c] \in Early => sender["client"][c] \in Early
      /\ sender'["server"][c] = "none" => sender["server"][c] = "none"
      /\ sender'["client"][c] \in Early => sender'["server"][c] = "none"
  <2>1. CASE handleStatusNew /\ NextFrame("server").conn = c
    <3>1. PICK f, d : f = NextFrame("server") /\ d = f.conn
      OBVIOUS
    <3>2. /\ \A x \in Sides, e \in Conns : sender'[x][e] = IF x = "server" /\ e = d THEN "copy" ELSE sender[x][e]
          /\ f.status = "New" /\ link["client"] # <<>> /\ f = link["client"][1]
      BY <3>1, <2>1, NewArrives
    <3>3. 1 \in 1 .. Len(link["client"])
      BY <3>2, <1>s DEF MuxInv, MuxTypes
    <3>4. news(link["client"], c) # {}
      BY <3>1, <3>2, <3>3, <2>1 DEF news, isNew
    <3>5. sender["client"][c] \notin Early
      BY <3>4, <1>b DEF Begun
    <3> QED
      BY <3>1, <3>2, <3>5, <2>1, <1>s
  <2>2. CASE /\ sender'["client"][c] \in Early => sender["client"][c] \in Early
             /\ sender'["server"][c] = "none" <=> sender["server"][c] = "none"
    BY <2>2, <1>b DEF Begun
  <2> QED
    BY <2>1, <2>2, <1>1
<1>3. sender'["client"][c] \in Early =>
       /\ sent'["client"][c] = 0 /\ sender'["server"][c] = "none"
       /\ data(link'["client"], c) = {} /\ news(link'["client"], c) = {}
  <2> SUFFICES ASSUME sender'["client"][c] \in Early
               PROVE  /\ sent'["client"][c] = 0 /\ sender'["server"][c] = "none"
                      /\ data(link'["client"], c) = {} /\ news(link'["client"], c) = {}
    OBVIOUS
  <2>1. sent["client"][c] = 0 /\ data(link["client"], c) = {} /\ news(link["client"], c) = {}
    BY <1>2, <1>b DEF Begun
  <2>2. sent'["client"][c] = 0
    BY <2>1, <1>s, SentMoves
  <2>3. \A f \in Frames : Adds("client", c, f) => ~(f.status # "End" /\ f.conn = c)
    BY DEF Adds
  <2>4. data(link'["client"], c) = {}
    BY <2>1, <2>3, <1>s, FramesCome DEF isData
  <2>5. news(link'["client"], c) = {}
    BY <2>1, <2>3, <1>s, FramesCome DEF isNew
  <2> QED
    BY <2>2, <2>4, <2>5, <1>2
<1>4. sender'["server"][c] = "none" =>
       /\ sent'["server"][c] = 0 /\ data(link'["server"], c) = {}
       /\ \A x \in Sides : got'[x][c] = <<>> /\ ~copying(x, c)'
  <2> SUFFICES ASSUME sender'["server"][c] = "none"
               PROVE  /\ sent'["server"][c] = 0 /\ data(link'["server"], c) = {}
                      /\ \A x \in Sides : got'[x][c] = <<>> /\ ~copying(x, c)'
    OBVIOUS
  <2>1. /\ sent["server"][c] = 0 /\ data(link["server"], c) = {} /\ sender["server"][c] = "none"
        /\ \A x \in Sides : got[x][c] = <<>> /\ ~copying(x, c)
    BY <1>2, <1>b DEF Begun
  <2>2. sent'["server"][c] = 0
    BY <2>1, <1>s, SentMoves
  <2>3. data(link'["server"], c) = {}
    <3> SUFFICES ASSUME NEW f \in Frames, Adds("server", c, f), isData(f, c) PROVE FALSE
      BY <2>1, <1>s, FramesCome
    <3> QED
      BY <2>1, <1>s DEF Adds, Origin, isData
  <2>4. ASSUME NEW x \in Sides PROVE got'[x][c] = <<>> /\ ~copying(x, c)'
    <3>1. ~Written(x, c) /\ ~Lost(x, c)
      BY <2>1 DEF Written, Lost
    <3>2. ~ArrivesNew(x, c)
      <4> SUFFICES ASSUME ArrivesNew(x, c) PROVE FALSE
        OBVIOUS
      <4>1. PICK f, d : f = NextFrame("server") /\ d = f.conn
        OBVIOUS
      <4>2. \A y \in Sides, e \in Conns : sender'[y][e] = IF y = "server" /\ e = d THEN "copy" ELSE sender[y][e]
        BY <4>1, NewArrives DEF ArrivesNew
      <4> QED
        BY <4>1, <4>2, <1>s DEF ArrivesNew
    <3>3. ~ArrivesKeep(x, c)
      <4> SUFFICES ASSUME ArrivesKeep(x, c) PROVE FALSE
        OBVIOUS
      <4>1. PICK f, d : f = NextFrame(x) /\ d = f.conn
        OBVIOUS
      <4>2. 1 \in data(link[Peer(x)], d) /\ id[d] \in Ids /\ d = c
        BY <4>1, KeepIsOwn DEF ArrivesKeep
      <4>3. CASE x = "client"
        BY <4>2, <4>3, <2>1, <1>s
      <4>4. CASE x = "server"
        <5>1. table["server"][id[c]] = c
          BY <4>4 DEF ArrivesKeep
        <5> QED
          BY <5>1, <4>2, <2>1, <1>b DEF Placed
      <4> QED
        BY <4>3, <4>4, <1>s
    <3>4. Stays(x, c)
      BY <3>1, <3>2, <3>3, Arrivals DEF Comes
    <3> QED
      BY <3>4, <2>1 DEF Stays
  <2> QED
    BY <2>2, <2>3, <2>4
<1> QED
  BY <1>3, <1>4, NewFirst DEF Begun

LEMMA FramedStep ==
  ASSUME MuxInv, Next
  PROVE  Framed'
<1>1. \A x \in Sides : \A i \in 1 .. Len(link'[x]) : Marked(x, link[x][i])'
  <2> SUFFICES ASSUME NEW x \in Sides, NEW i \in 1 .. Len(link'[x]) PROVE Marked(x, link[x][i])'
    OBVIOUS
  <2>1. PICK f : f = link'[x][i]
    OBVIOUS
  <2>2. Marked(x, f)'
    BY <2>1, MarkedStep
  <2> QED
    BY <2>1, <2>2 DEF Marked
<1> QED
  BY <1>1, LostStep, BegunStep DEF Framed

-----------------------------------------------------------------------------
(* The chunks of a connection flow *)

LEMMA OutputWas ==
  ASSUME MuxInv, Next
  PROVE  /\ \A x \in Sides, c \in Conns : output'[x][c] = "open" => output[x][c] = "open"
         /\ linkUp' => linkUp
<1>1. CASE Steady
  BY <1>1 DEF Steady, OutputsShut, WorkersEnd
<1>2. ASSUME NEW c \in Conns, Allocate(c) PROVE output' = output /\ linkUp' = linkUp
  BY <1>2 DEF Allocate, flows, worker
<1>3. CASE handleStatusNew
  BY <1>3 DEF handleStatusNew, flows, worker
<1> QED
  BY <1>1, <1>2, <1>3, SteadySteps

LEMMA ArrivedIs ==
  ASSUME MuxInv, Next, NEW x \in Sides, NEW c \in Conns
  PROVE  /\ arrived(x, c) \in Nat /\ Len(got[x][c]) \in Nat /\ got[x][c] \in Seq(Conns \X Nat)
         /\ ~copying(x, c) => arrived(x, c) = Len(got[x][c])
         /\ Stays(x, c) \/ Written(x, c) => arrived(x, c)' = arrived(x, c)
         /\ Comes(x, c) => arrived(x, c)' = arrived(x, c) + 1
<1>1. got[x][c] \in Seq(Conns \X Nat) /\ Len(got[x][c]) \in Nat
  BY DEF MuxInv, MuxTypes
<1>2. arrived(x, c) \in Nat /\ (~copying(x, c) => arrived(x, c) = Len(got[x][c]))
  <2>1. CASE copying(x, c)
    <3>1. arrived(x, c) = Len(got[x][c]) + 1
      BY <2>1 DEF arrived
    <3> QED
      BY <3>1, <2>1, <1>1
  <2>2. CASE ~copying(x, c)
    <3>1. arrived(x, c) = Len(got[x][c]) + 0
      BY <2>2 DEF arrived
    <3> QED
      BY <3>1, <1>1
  <2> QED
    BY <2>1, <2>2
<1>3. Stays(x, c) => arrived(x, c)' = arrived(x, c)
  BY DEF Stays, arrived
<1>4. Written(x, c) => arrived(x, c)' = arrived(x, c)
  <2> SUFFICES ASSUME Written(x, c) PROVE arrived(x, c)' = arrived(x, c)
    OBVIOUS
  <2>1. PICK g, k : g = got[x][c] /\ k = receiver[x].chunk
    OBVIOUS
  <2>2. Len(Append(g, k)) = Len(g) + 1
    BY <2>1, <1>1
  <2> QED
    BY <2>1, <2>2 DEF Written, arrived
<1>5. Comes(x, c) => arrived(x, c)' = arrived(x, c) + 1
  BY <1>1 DEF Comes, arrived
<1> QED
  BY <1>1, <1>2, <1>3, <1>4, <1>5

\* Before it has a server's side nothing of a connection is anywhere.
LEMMA NothingYet ==
  ASSUME MuxInv, NEW x \in Sides, NEW c \in Conns, sender["client"][c] \in Early
  PROVE  stretch(link[Peer(x)], c, arrived(x, c), sent[Peer(x)][c])
<1>1. /\ sent["client"][c] = 0 /\ sender["server"][c] = "none" /\ data(link["client"], c) = {}
      /\ sent["server"][c] = 0 /\ data(link["server"], c) = {}
      /\ got[x][c] = <<>> /\ ~copying(x, c)
  BY DEF MuxInv, Framed, Begun
<1>2. arrived(x, c) = 0
  BY <1>1 DEF arrived
<1>3. data(link[Peer(x)], c) = {} /\ sent[Peer(x)][c] = 0
  BY <1>1, SidesAndPeers
<1> QED
  BY <1>2, <1>3, StretchEmpty

\* A connected connection was connected before, or has only begun.
LEMMA WasConnected ==
  ASSUME MuxInv, Next, NEW x \in Sides, NEW c \in Conns, connected(x, c)'
  PROVE  connected(x, c) \/ sender["client"][c] \in Early
<1>s. "client" \in Sides /\ "server" \in Sides /\ "client" # "server" /\ None \notin Conns
  BY SidesAndPeers, ConstantsAssumption
<1>1. linkUp /\ output[x][c] = "open"
  BY OutputWas DEF connected
<1>2. CASE x = "server" /\ news(link'["client"], c) # {}
  <2>1. CASE news(link["client"], c) # {}
    BY <1>1, <1>2, <2>1 DEF connected
  <2>2. CASE news(link["client"], c) = {}
    <3>1. PICK f \in Frames : Adds("client", c, f) /\ isNew(f, c)
      BY <1>2, <2>2, <1>s, FramesCome
    <3>2. sender["client"][c] = "first"
      BY <3>1 DEF Adds, Origin, isNew
    <3> QED
      BY <3>2 DEF Early
  <2> QED
    BY <2>1, <2>2
<1>3. CASE ~closed'[x] /\ id'[c] # 0 /\ table'[x][id'[c]] = c
  <2>0. id'[c] \in Ids
    <3>1. MuxTypes'
      BY TypesStep
    <3> QED
      BY <3>1, <1>3 DEF MuxTypes
  <2>1. CASE Steady
    <3>1. id'[c] = id[c] /\ table[x][id[c]] = c /\ ~closed[x]
      <4>1. id'[c] = id[c] /\ ~closed[x]
        BY <2>1, <1>3 DEF Steady, WorkersEnd
      <4>2. table'[x][id[c]] = c /\ c # None
        BY <4>1, <1>3, <1>s
      <4>3. table'[x][id[c]] # None => table'[x][id[c]] = table[x][id[c]]
        BY <2>1, <2>0, <4>1 DEF Steady, TablesShrink
      <4> QED
        BY <4>1, <4>2, <4>3
    <3> QED
      BY <3>1, <1>1, <1>3 DEF connected
  <2>2. ASSUME NEW d \in Conns, Allocate(d), ~closed["client"]
        PROVE  connected(x, c) \/ sender["client"][c] \in Early
    <3>1. /\ \A e \in Conns : id'[e] = IF e = d THEN count + 1 ELSE id[e]
          /\ \A y \in Sides, i \in Ids : table'[y][i] = IF y = "client" /\ i = count + 1 THEN d ELSE table[y][i]
          /\ sender["client"][d] = "dispatching" /\ closed' = closed
      BY <2>2, AllocateOpen
    <3>2. CASE c = d
      BY <3>1, <3>2 DEF Early
    <3>3. CASE c # d
      BY <3>1, <3>3, <2>0, <1>1, <1>3 DEF connected
    <3> QED
      BY <3>2, <3>3
  <2>3. ASSUME NEW d \in Conns, Allocate(d), closed["client"] PROVE Steady
    BY <2>3, AllocateClosed
  <2>4. CASE handleStatusNew
    <3>1. PICK f, d : f = NextFrame("server") /\ d = f.conn
      OBVIOUS
    <3>2. /\ d \in Conns /\ f.status = "New" /\ link["client"] # <<>> /\ f = link["client"][1]
          /\ \A y \in Sides, i \in Ids : table'[y][i] = IF y = "server" /\ i = id[d] THEN d ELSE table[y][i]
          /\ id' = id /\ closed' = closed
      BY <3>1, <2>4, NewArrives
    <3>3. CASE x = "server" /\ c = d
      <4>1. 1 \in 1 .. Len(link["client"])
        BY <3>2, <1>s DEF MuxInv, MuxTypes
      <4>2. 1 \in news(link["client"], c)
        BY <4>1, <3>1, <3>2, <3>3 DEF news, isNew
      <4> QED
        BY <4>2, <3>3, <1>1 DEF connected
    <3>4. CASE ~(x = "server" /\ c = d)
      <4>1. table[x][id[c]] = c
        BY <3>2, <3>4, <2>0, <1>3
      <4> QED
        BY <4>1, <3>2, <1>1, <1>3 DEF connected
    <3> QED
      BY <3>3, <3>4
  <2> QED
    BY <2>1, <2>2, <2>3, <2>4, SteadySteps
<1> QED
  BY <1>2, <1>3 DEF connected

\* A frame that comes is the one that was first.
LEMMA ComesFirst ==
  ASSUME MuxInv, NEW x \in Sides, NEW c \in Conns, ArrivesNew(x, c) \/ ArrivesKeep(x, c)
  PROVE  /\ link[Peer(x)] # <<>> /\ link[Peer(x)] \in Seq(Frames) /\ link'[Peer(x)] = Tail(link[Peer(x)])
         /\ isData(link[Peer(x)][1], c) /\ link[Peer(x)][1] = NextFrame(x)
         /\ output[x][c] = "open" => connected(x, c)
<1>1. CASE ArrivesNew(x, c)
  <2>1. PICK f, d : f = NextFrame("server") /\ d = f.conn
    OBVIOUS
  <2>2. /\ f \in Frames /\ f.status = "New" /\ link["client"] # <<>> /\ f = link["client"][1] /\ linkUp
        /\ link'["client"] = Tail(link["client"]) /\ f.num \in {0, 1}
    BY <2>1, <1>1, NewArrives DEF ArrivesNew
  <2>3. x = "server" /\ Peer(x) = "client" /\ d = c /\ f.num # 0
    BY <2>1, <1>1, SidesAndPeers DEF ArrivesNew
  <2>4. link["client"] \in Seq(Frames) /\ "client" \in Sides
    BY DEF MuxInv, MuxTypes, Sides
  <2>5. isData(f, c) /\ isNew(f, c)
    BY <2>1, <2>2, <2>3 DEF isData, isNew
  <2>6. 1 \in news(link["client"], c)
    <3>1. 1 \in 1 .. Len(link["client"])
      BY <2>2, <2>4
    <3> QED
      BY <3>1, <2>2, <2>5 DEF news
  <2> QED
    BY <2>1, <2>2, <2>3, <2>4, <2>5, <2>6 DEF connected
<1>2. CASE ArrivesKeep(x, c)
  <2>1. PICK f, d : f = NextFrame(x) /\ d = f.conn
    OBVIOUS
  <2>2. /\ link[Peer(x)] # <<>> /\ f = link[Peer(x)][1] /\ linkUp /\ Take(x) /\ isData(f, d) /\ id[d] \in Ids
    BY <2>1, <1>2, KeepIsOwn DEF ArrivesKeep
  <2>3. d = c /\ ~closed[x] /\ table[x][id[c]] = c
    BY <2>1, <1>2 DEF ArrivesKeep
  <2>4. link[Peer(x)] \in Seq(Frames) /\ link'[Peer(x)] = Tail(link[Peer(x)])
    BY <2>2, SidesAndPeers, TakeTakes DEF MuxInv, MuxTypes
  <2> QED
    BY <2>1, <2>2, <2>3, <2>4 DEF connected, Ids
<1> QED
  BY <1>1, <1>2

LEMMA FlowingStep ==
  ASSUME MuxInv, Next
  PROVE  Flowing'
<1> SUFFICES ASSUME NEW x \in Sides, NEW c \in Conns, connected(x, c)'
             PROVE  stretch(link'[Peer(x)], c, arrived(x, c)', sent'[Peer(x)][c])
  BY DEF Flowing
<1> DEFINE y == Peer(x)
           w == link[y]
           m == arrived(x, c)
           n == sent[y][c]
<1>p. y \in Sides /\ Peer(y) = x /\ w \in Seq(Frames) /\ n \in Nat /\ m \in Nat
  <2>1. y \in Sides /\ Peer(y) = x
    BY SidesAndPeers
  <2>2. w \in Seq(Frames) /\ n \in Nat
    BY <2>1 DEF MuxInv, MuxTypes
  <2>3. m \in Nat
    BY ArrivedIs
  <2> QED
    BY <2>1, <2>2, <2>3
<1>1. stretch(w, c, m, n)
  <2>1. connected(x, c) => stretch(w, c, m, n)
    BY DEF MuxInv, Flowing
  <2> QED
    BY <2>1, WasConnected, NothingYet
<1>2. linkUp' /\ output[x][c] = "open"
  BY OutputWas DEF connected
<1>3. ~Gone(y) /\ ~Wasted(y) /\ ~Lost(x, c)
  BY <1>2 DEF Gone, Wasted, Lost
<1>4. /\ Stays(x, c) \/ Written(x, c) => arrived(x, c)' = m
      /\ Comes(x, c) => arrived(x, c)' = m + 1
  BY ArrivedIs
<1>5. Stays(x, c) \/ Written(x, c) \/ Comes(x, c)
  BY <1>3, Arrivals
<1>6. Comes(x, c) => w # <<>> /\ link'[y] = Tail(w) /\ isData(w[1], c)
  BY ComesFirst DEF Comes
<1>7. w # <<>> => Tail(w) # w /\ Len(Tail(w)) < Len(w)
  <2> SUFFICES ASSUME w # <<>> PROVE Tail(w) # w /\ Len(Tail(w)) < Len(w)
    OBVIOUS
  <2>1. PICK l, k : l = Len(w) /\ k = Len(Tail(w))
    OBVIOUS
  <2>2. l \in Nat /\ k = l - 1
    BY <2>1, <1>p
  <2>3. k < l /\ k # l
    BY <2>2
  <2> QED
    BY <2>1, <2>3
<1>8. CASE Rests(y, c)
  <2>1. ~Comes(x, c)
    BY <1>6, <1>7, <1>8 DEF Rests
  <2> QED
    BY <2>1, <1>1, <1>4, <1>5, <1>8 DEF Rests
<1>9. ASSUME NEW f \in Frames, Adds(y, c, f)
      PROVE  stretch(link'[y], c, arrived(x, c)', sent'[y][c])
  <2>1. PICK v : v = Append(w, f)
    OBVIOUS
  <2>2. link'[y] = v
    BY <2>1, <1>9 DEF Adds
  <2>3. ~Comes(x, c)
    <3>1. Len(v) = Len(w) + 1 /\ Len(w) \in Nat
      BY <2>1, <1>p, AppendFrames
    <3>2. w # <<>> => Tail(w) # v
      BY <3>1, <1>7
    <3> QED
      BY <3>2, <2>2, <1>6
  <2>4. arrived(x, c)' = m
    BY <2>3, <1>4, <1>5
  <2> HIDE DEF w, m, n, y
  <2>5. CASE isData(f, c)
    <3>1. sent'[y][c] = n + 1 /\ f.num = n + 1
      BY <2>5, <1>9 DEF Adds, n
    <3>2. stretch(v, c, m, n + 1)
      BY <2>1, <2>5, <3>1, <1>p, <1>1, StretchGrows
    <3> QED
      BY <3>1, <3>2, <2>2, <2>4
  <2>6. CASE ~isData(f, c)
    <3>1. sent'[y][c] = n
      BY <2>6, <1>9 DEF Adds, n
    <3>2. stretch(v, c, m, n)
      BY <2>1, <2>6, <1>p, <1>1, StretchKept
    <3> QED
      BY <3>1, <3>2, <2>2, <2>4
  <2> QED
    BY <2>5, <2>6
<1>10. ASSUME Loses(y, c)
       PROVE  stretch(link'[y], c, arrived(x, c)', sent'[y][c])
  <2>1. PICK v : v = Tail(w)
    OBVIOUS
  <2>2. w # <<>> /\ link'[y] = v /\ sent'[y][c] = n
    BY <2>1, <1>10 DEF Loses
  <2>3. isData(w[1], c) => Comes(x, c)
    <3> SUFFICES ASSUME isData(w[1], c), ~Comes(x, c) PROVE FALSE
      OBVIOUS
    <3>0. y = "client" => x = "server"
      BY SidesAndPeers
    <3>1. CASE y = "client" /\ handleStatusNew
      <4>1. PICK f, d : f = NextFrame("server") /\ d = f.conn
        OBVIOUS
      <4>2. /\ f \in Frames /\ f = link["client"][1] /\ d \in Conns /\ receiver["server"].pc = "header"
            /\ receiver'["server"] = IF f.num = 0 THEN Header ELSE Copying(d, f)
        BY <4>1, <3>1, NewArrives
      <4>3. d = c /\ f.num # 0 /\ f.num \in Nat
        BY <4>1, <4>2, <3>1, FrameFields DEF isData
      <4>4. copying(x, c)' /\ ~copying(x, c)
        BY <4>2, <4>3, <3>0, <3>1, CopyingType DEF copying
      <4> QED
        BY <4>4, <1>5 DEF Stays, Written
    <3>2. CASE handleStatusKeep(x)
      <4>1. PICK f, d : f = NextFrame(x) /\ d = f.conn
        OBVIOUS
      <4>2. /\ f \in Frames /\ f = w[1] /\ d \in Conns /\ receiver[x].pc = "header" /\ f.status = "Keep"
            /\ receiver' = [receiver EXCEPT ![x] = IF Get(x, f.id) = None THEN Replying(f) ELSE Copying(d, f)]
            /\ Get(x, f.id) = IF ~closed[x] /\ table[x][id[d]] = d THEN d ELSE None
            /\ UNCHANGED <<tables, sender, flows, worker>> /\ 1 \in data(w, d)
        BY <4>1, <3>2, KeepIsOwn
      <4>3. d = c
        BY <4>1, <4>2 DEF isData
      <4>4. CASE ~closed[x] /\ table[x][id[c]] = c
        <5>1. receiver'[x] = Copying(d, f)
          <6>1. receiver \in [Sides -> Receivers] /\ None \notin Conns
            BY ConstantsAssumption DEF MuxInv, MuxTypes
          <6>2. receiver' = [receiver EXCEPT ![x] = Copying(d, f)]
            BY <6>1, <4>2, <4>3, <4>4
          <6> QED
            BY <6>1, <6>2
        <5>2. copying(x, c)' /\ ~copying(x, c)
          BY <5>1, <4>2, <4>3, CopyingType DEF copying
        <5> QED
          BY <5>2, <1>5 DEF Stays, Written
      <4>5. CASE ~(~closed[x] /\ table[x][id[c]] = c)
        <5>1. x = "server" /\ news(link'["client"], c) # {}
          BY <4>2, <4>5 DEF connected, tables
        <5>2. y = "client"
          BY <5>1, SidesAndPeers
        <5>3. PICK i : i \in news(v, c)
          BY <5>1, <5>2, <2>2
        <5>4. i + 1 \in news(w, c) /\ i \in 1 .. Len(v)
          <6>1. \A j : j \in news(v, c) <=> j \in 1 .. Len(v) /\ j + 1 \in news(w, c)
            BY <2>1, <2>2, <1>p, TakeFrame
          <6> QED
            BY <5>3, <6>1
        <5>5. i + 1 <= 1
          BY <5>2, <5>4, <4>2, <4>3 DEF MuxInv, Framed, Begun
        <5>6. i \in Nat /\ i >= 1
          BY <5>4
        <5> QED
          BY <5>5, <5>6
      <4> QED
        BY <4>4, <4>5
    <3>3. CASE handleStatusEnd(x)
      BY <3>3 DEF handleStatusEnd, HasFrame, NextFrame, isData
    <3> QED
      BY <3>1, <3>2, <3>3, <1>10, <1>p DEF Loses
  <2>4. Comes(x, c) => isData(w[1], c)
    BY <1>6
  <2> HIDE DEF w, m, n, y
  <2>5. CASE isData(w[1], c)
    <3>1. stretch(v, c, m + 1, n)
      BY <2>1, <2>2, <2>5, <1>p, <1>1, StretchShrinks
    <3> QED
      BY <3>1, <2>2, <2>3, <2>5, <1>4
  <2>6. CASE ~isData(w[1], c)
    <3>1. stretch(v, c, m, n)
      BY <2>1, <2>2, <2>6, <1>p, <1>1, StretchMoves
    <3> QED
      BY <3>1, <2>2, <2>4, <2>6, <1>4, <1>5
  <2> QED
    BY <2>5, <2>6
<1> QED
  BY <1>3, <1>8, <1>9, <1>10, <1>p, Flows


LEMMA ArrivedStep ==
  ASSUME MuxInv, Next
  PROVE  Arrived'
<1> DEFINE ArrivedAt(x, c) ==
      /\ Len(got[x][c]) <= sent[Peer(x)][c]
      /\ \A k \in 1 .. Len(got[x][c]) : got[x][c][k] = <<c, k>>
      /\ copying(x, c) /\ output[x][c] = "open" =>
           receiver[x].chunk = <<c, Len(got[x][c]) + 1>> /\ Len(got[x][c]) < sent[Peer(x)][c]
<1> SUFFICES ASSUME NEW x \in Sides, NEW c \in Conns PROVE ArrivedAt(x, c)'
  BY DEF Arrived
<1>1. ArrivedAt(x, c)
  BY DEF MuxInv, Arrived
<1>2. sent[Peer(x)][c] \in Nat /\ sent'[Peer(x)][c] \in {sent[Peer(x)][c], sent[Peer(x)][c] + 1} /\ Peer(x) \in Sides
  <2>1. Peer(x) \in Sides
    BY SidesAndPeers
  <2>2. sent[Peer(x)][c] \in Nat
    BY <2>1 DEF MuxInv, MuxTypes
  <2>3. sent'[Peer(x)][c] \in {sent[Peer(x)][c], sent[Peer(x)][c] + 1}
    BY <2>1, SentMoves
  <2> QED
    BY <2>1, <2>2, <2>3
<1>3. output'[x][c] = "open" => output[x][c] = "open"
  BY OutputWas
<1>4. got[x][c] \in Seq(Conns \X Nat) /\ Len(got[x][c]) \in Nat
  BY ArrivedIs
<1>5. \A l \in Nat : /\ l <= sent[Peer(x)][c] => l <= sent'[Peer(x)][c]
                     /\ l < sent[Peer(x)][c] => l < sent'[Peer(x)][c] /\ l + 1 <= sent'[Peer(x)][c]
  BY <1>2
<1>6. CASE Stays(x, c)
  BY <1>6, <1>1, <1>3, <1>4, <1>5 DEF Stays
<1>7. CASE Lost(x, c)
  BY <1>7, <1>1, <1>4, <1>5 DEF Lost
<1>8. CASE Written(x, c)
  <2>1. PICK g, l, k : g = got[x][c] /\ l = Len(got[x][c]) /\ k = receiver[x].chunk
    OBVIOUS
  <2>2. k = <<c, l + 1>> /\ l < sent[Peer(x)][c] /\ ~copying(x, c)' /\ got'[x][c] = Append(g, k)
    BY <2>1, <1>8, <1>1 DEF Written
  <2>3. PICK h : h = Append(g, k)
    OBVIOUS
  <2>4. l \in Nat /\ l = Len(g) /\ Len(h) = l + 1 /\ h[l + 1] = k /\ \A i \in 1 .. l : h[i] = g[i]
    BY <2>1, <2>3, <1>4
  <2>5. \A i \in 1 .. l : g[i] = <<c, i>>
    BY <2>1, <1>1
  <2>6. \A i \in 1 .. l + 1 : h[i] = <<c, i>>
    <3> TAKE i \in 1 .. l + 1
    <3>1. i = l + 1 \/ i \in 1 .. l
      BY <2>4
    <3> QED
      BY <3>1, <2>2, <2>4, <2>5
  <2>7. Len(got'[x][c]) = l + 1 /\ \A i \in 1 .. Len(got'[x][c]) : got'[x][c][i] = <<c, i>>
    BY <2>2, <2>3, <2>4, <2>6
  <2>8. l + 1 <= sent'[Peer(x)][c]
    BY <2>2, <2>4, <1>5
  <2> QED
    BY <2>2, <2>7, <2>8
<1>9. CASE Comes(x, c)
  <2>1. got'[x][c] = got[x][c] /\ ~copying(x, c) /\ receiver'[x].chunk = <<c, NextFrame(x).num>>
    BY <1>9 DEF Comes
  <2>2. output'[x][c] = "open" => NextFrame(x).num = Len(got[x][c]) + 1 /\ Len(got[x][c]) < sent[Peer(x)][c]
    <3> SUFFICES ASSUME output'[x][c] = "open"
                 PROVE  NextFrame(x).num = Len(got[x][c]) + 1 /\ Len(got[x][c]) < sent[Peer(x)][c]
      OBVIOUS
    <3>1. /\ connected(x, c) /\ isData(link[Peer(x)][1], c) /\ link[Peer(x)] # <<>> /\ link[Peer(x)] \in Seq(Frames)
          /\ link[Peer(x)][1] = NextFrame(x)
      BY <1>3, <1>9, ComesFirst DEF Comes
    <3>2. arrived(x, c) = Len(got[x][c]) /\ arrived(x, c) \in Nat
      BY <2>1, ArrivedIs
    <3>3. stretch(link[Peer(x)], c, arrived(x, c), sent[Peer(x)][c])
      BY <3>1 DEF MuxInv, Flowing
    <3>4. link[Peer(x)][1].num = arrived(x, c) + 1 /\ arrived(x, c) < sent[Peer(x)][c]
      <4>1. PICK w, m, n, v : w = link[Peer(x)] /\ m = arrived(x, c) /\ n = sent[Peer(x)][c] /\ v = Tail(w)
        OBVIOUS
      <4>2. w \in Seq(Frames) /\ w # <<>> /\ isData(w[1], c) /\ m \in Nat /\ n \in Nat /\ stretch(w, c, m, n)
        BY <4>1, <3>1, <3>2, <3>3, <1>2
      <4>3. w[1].num = m + 1 /\ m < n
        BY <4>1, <4>2, StretchShrinks
      <4> QED
        BY <4>1, <4>3
    <3> QED
      BY <3>1, <3>2, <3>4
  <2> QED
    BY <2>1, <2>2, <1>1, <1>4, <1>5
<1> QED
  BY <1>6, <1>7, <1>8, <1>9, Arrivals

LEMMA EndedStep ==
  ASSUME MuxInv, Next
  PROVE  Ended'
<1>a. /\ closed \in [Sides -> BOOLEAN] /\ receiver \in [Sides -> Receivers] /\ "server" \in Sides /\ "client" \in Sides
      /\ "client" # "server"
      /\ closed["server"] => receiver["server"].pc = "ended"
      /\ closed["client"] => done
  BY DEF MuxInv, MuxTypes, Ended, Sides
<1>U. closed' = closed /\ receiver' = receiver /\ done' = done => Ended'
  BY <1>a DEF Ended
<1>R. ASSUME NEW x \in Sides, NEW q, receiver' = [receiver EXCEPT ![x] = q], receiver[x].pc # "ended", closed' = closed, done' = done
      PROVE  Ended'
  <2>1. x = "server" \/ receiver'["server"] = receiver["server"]
    BY <1>R, <1>a
  <2> QED
    BY <2>1, <1>R, <1>a DEF Ended
<1>1. ASSUME NEW c \in Conns, DispatchBegins(c) \/ Allocate(c) \/ Launch(c) \/ FirstPayload(c) PROVE Ended'
  <2>1. closed' = closed /\ receiver' = receiver /\ done' = done
    BY <1>1 DEF DispatchBegins, Allocate, Launch, FirstPayload, tables, worker
  <2> QED
    BY <2>1, <1>U
<1>2. ASSUME NEW x \in Sides, NEW c \in Conns, Copy(x, c) \/ WriterClose(x, c) \/ SenderCloses(x, c) \/ Finish(x, c) \/ Abort(x, c)
      PROVE  Ended'
  BY <1>2, <1>U DEF Copy, WriterClose, SenderCloses, Finish, Abort, tables, worker
<1>3. ASSUME handleStatusNew PROVE Ended'
  <2>1. \E q : receiver' = [receiver EXCEPT !["server"] = q]
    BY <1>3 DEF handleStatusNew
  <2> QED
    BY <2>1, <1>3, <1>R, <1>a DEF handleStatusNew, HasFrame, worker
<1>4. ASSUME NEW x \in Sides, handleStatusKeep(x) PROVE Ended'
  <2>1. \E q : receiver' = [receiver EXCEPT ![x] = q]
    BY <1>4 DEF handleStatusKeep
  <2> QED
    BY <2>1, <1>4, <1>R DEF handleStatusKeep, HasFrame, worker, tables
<1>5. ASSUME NEW x \in Sides, handleStatusEnd(x) PROVE Ended'
  BY <1>5, <1>U DEF handleStatusEnd, worker
<1>6. ASSUME NEW x \in Sides, Reply(x) PROVE Ended'
  BY <1>6, <1>R DEF Reply, worker, tables
<1>7. ASSUME NEW x \in Sides, CopyPiece(x) PROVE Ended'
  <2>1. \E q : receiver' = [receiver EXCEPT ![x] = q]
    BY <1>7 DEF CopyPiece
  <2> QED
    BY <2>1, <1>7, <1>R DEF CopyPiece, worker, tables
<1>8. ASSUME NEW x \in Sides, ReceiverEnds(x) PROVE Ended'
  <2>0. receiver' = [receiver EXCEPT ![x] = [Header EXCEPT !.pc = "ended"]]
    BY <1>8 DEF ReceiverEnds
  <2>1. \A y \in Sides : receiver'[y] = IF y = x THEN [Header EXCEPT !.pc = "ended"] ELSE receiver[y]
    BY <2>0, <1>a
  <2>2. receiver["server"].pc = "ended" \/ x = "server" => receiver'["server"].pc = "ended"
    BY <2>1, <1>a, HeaderIs
  <2>3. CASE x = "client" /\ done' = TRUE /\ UNCHANGED <<table, closed, output>>
    BY <2>2, <2>3, <1>a DEF Ended
  <2>4. CASE x = "server" /\ ManagerClose(x) /\ UNCHANGED done
    <3>1. closed' = [closed EXCEPT !["server"] = TRUE]
      BY <2>4 DEF ManagerClose
    <3>2. closed'["client"] = closed["client"]
      BY <3>1, <1>a
    <3> QED
      BY <3>2, <2>2, <2>4, <1>a DEF Ended
  <2> QED
    BY <2>3, <2>4, <1>8 DEF ReceiverEnds
<1>9. ASSUME MonitorTick \/ MonitorDisconnects \/ LinkFails PROVE Ended'
  BY <1>9, <1>U DEF MonitorTick, MonitorDisconnects, LinkFails, tables
<1>10. ASSUME CloseIfNoSession PROVE Ended'
  <2>1. receiver' = receiver /\ (UNCHANGED <<closed, done>> \/ (closed' = [closed EXCEPT !["client"] = TRUE] /\ done' = TRUE))
    BY <1>10 DEF CloseIfNoSession
  <2> QED
    BY <2>1, <1>a DEF Ended
<1>11. ASSUME MonitorCloses PROVE Ended'
  <2>1. receiver' = receiver /\ done /\ done' = done /\ (closed' = closed \/ closed' = [closed EXCEPT !["client"] = TRUE])
    BY <1>11 DEF MonitorCloses, ManagerClose
  <2> QED
    BY <2>1, <1>a DEF Ended
<1> QED
  BY <1>1, <1>2, <1>3, <1>4, <1>5, <1>6, <1>7, <1>8, <1>9, <1>10, <1>11
     DEF Next, SenderStep, ReceiverStep, MonitorStep, Application

-----------------------------------------------------------------------------
(* The types and the order of the data *)

LEMMA MuxStarts == Init => MuxInv
<1> SUFFICES ASSUME Init PROVE MuxInv
  OBVIOUS
<1>i. /\ count = 0
      /\ table = [x \in Sides |-> [i \in Ids |-> None]]
      /\ closed = [x \in Sides |-> FALSE]
      /\ id = [c \in Conns |-> 0]
      /\ sender = [x \in Sides |-> [c \in Conns |-> "none"]]
      /\ sent = [x \in Sides |-> [c \in Conns |-> 0]] /\ waiting = [x \in Sides |-> [c \in Conns |-> 0]]
      /\ input = [x \in Sides |-> [c \in Conns |-> "open"]] /\ output = [x \in Sides |-> [c \in Conns |-> "open"]]
      /\ got = [x \in Sides |-> [c \in Conns |-> <<>>]]
      /\ link = [x \in Sides |-> <<>>]
      /\ receiver = [x \in Sides |-> Header]
      /\ linkUp = TRUE /\ done = FALSE /\ monitor = "wait"
  BY DEF Init
<1>s. "client" \in Sides /\ "server" \in Sides /\ (\A x \in Sides : Peer(x) \in Sides) /\ None \notin Conns
  BY SidesAndPeers, ConstantsAssumption
<1>c. Cardinality(Conns) \in Nat
  BY ConstantsAssumption, FS_CardinalityType
<1>h. Header \in Receivers /\ Header.pc = "header"
  BY DEF Header, Receivers
<1>e. \A c : data(<<>>, c) = {} /\ news(<<>>, c) = {}
  <2>1. \A i \in 1 .. Len(<<>>) : FALSE
    OBVIOUS
  <2> QED
    BY <2>1 DEF data, news
<1>1. MuxTypes
  <2>1. \A x \in Sides, c \in Conns : sent[x][c] + waiting[x][c] <= MaxChunks[x][c]
    <3> TAKE x \in Sides, c \in Conns
    <3>1. sent[x][c] = 0 /\ waiting[x][c] = 0 /\ MaxChunks[x][c] \in Nat
      BY <1>i, ConstantsAssumption
    <3> QED
      BY <3>1
  <2>2. count \in 0 .. Cardinality(Conns)
    BY <1>i, <1>c
  <2>3. <<>> \in Seq(Conns \X Nat) /\ <<>> \in Seq(Frames)
    OBVIOUS
  <2>4. got \in [Sides -> [Conns -> Seq(Conns \X Nat)]] /\ link \in [Sides -> Seq(Frames)]
    BY <1>i, <2>3
  <2>5. receiver \in [Sides -> Receivers] /\ \A x \in Sides : receiver[x].pc = "copy" => receiver[x].conn \in Conns
    BY <1>i, <1>h
  <2>6. sender \in [Sides -> [Conns -> States]]
    BY <1>i DEF States
  <2> QED
    BY <1>i, <2>1, <2>2, <2>4, <2>5, <2>6 DEF MuxTypes
<1>2. Numbered
  <2>1. {c \in Conns : id[c] # 0} = {}
    BY <1>i
  <2>2. Cardinality({c \in Conns : id[c] # 0}) = 0
    BY <2>1, FS_EmptySet
  <2>3. \A c \in Conns : id[c] = 0 /\ sender["client"][c] = "none"
    BY <1>i, <1>s
  <2>4. count = 0 /\ \A c \in Conns : id[c] <= count
    BY <1>i, <2>3
  <2> QED
    BY <2>2, <2>3, <2>4 DEF Numbered
<1>3. Placed
  BY <1>i, <1>s DEF Placed
<1>4. \A x \in Sides, c \in Conns : /\ data(link[x], c) = {} /\ news(link[x], c) = {} /\ sent[x][c] = 0 /\ got[x][c] = <<>>
                                    /\ ~copying(x, c) /\ sender[x][c] = "none"
  BY <1>i, <1>e, <1>h DEF copying
<1>5. Framed
  <2>1. \A x \in Sides : \A i \in 1 .. Len(link[x]) : Marked(x, link[x][i])
    BY <1>i
  <2>2. \A c \in Conns : Begun(c)
    BY <1>4, <1>s DEF Begun
  <2> QED
    BY <1>i, <2>1, <2>2 DEF Framed
<1>6. Flowing
  <2> SUFFICES ASSUME NEW x \in Sides, NEW c \in Conns PROVE stretch(link[Peer(x)], c, arrived(x, c), sent[Peer(x)][c])
    BY DEF Flowing
  <2>1. sender["client"][c] \in Early
    BY <1>4, <1>s DEF Early
  <2>2. arrived(x, c) = 0
    <3>1. got[x][c] = <<>> /\ ~copying(x, c)
      BY <1>4
    <3> QED
      BY <3>1 DEF arrived
  <2>3. data(link[Peer(x)], c) = {} /\ sent[Peer(x)][c] = 0
    BY <1>4, <1>s
  <2> QED
    BY <2>2, <2>3, StretchEmpty
<1>7. Arrived
  <2>1. \A x \in Sides, c \in Conns : Len(got[x][c]) = 0 /\ sent[Peer(x)][c] = 0 /\ ~copying(x, c)
    BY <1>4, <1>s
  <2> QED
    BY <2>1 DEF Arrived
<1>8. Ended
  BY <1>i, <1>s DEF Ended
<1> QED
  BY <1>1, <1>2, <1>3, <1>5, <1>6, <1>7, <1>8 DEF MuxInv

LEMMA MuxSteps == MuxInv /\ [Next]_vars => MuxInv'
<1>1. CASE UNCHANGED vars
  <2> SUFFICES ASSUME MuxInv PROVE MuxInv'
    OBVIOUS
  <2>u. UNCHANGED <<count, table, closed, id, sender, sent, waiting, input, output, got, link, receiver, linkUp, done, monitor>>
    BY <1>1 DEF vars, tables, flows, worker
  <2>1. MuxTypes'
    BY <2>u DEF MuxInv, MuxTypes
  <2>2. Numbered' /\ Placed' /\ Ended'
    BY <2>u DEF MuxInv, Numbered, Placed, Ended
  <2>3. Framed'
    BY <2>u DEF MuxInv, Framed, Marked, Begun, copying
  <2>4. Flowing'
    BY <2>u DEF MuxInv, Flowing, connected, arrived, copying
  <2>5. Arrived'
    BY <2>u DEF MuxInv, Arrived, copying
  <2> QED
    BY <2>1, <2>2, <2>3, <2>4, <2>5 DEF MuxInv
<1>2. ASSUME MuxInv, Next PROVE MuxInv'
  BY <1>2, TypesStep, NumberedStep, PlacedStep, FramedStep, FlowingStep, ArrivedStep, EndedStep DEF MuxInv
<1> QED
  BY <1>1, <1>2

LEMMA MuxAlways == Spec => []MuxInv
  BY MuxStarts, MuxSteps, PTL DEF Spec

\* Every variable has its type, ids stay within the connections, and, until a
\* chunk is torn, a session is in a table under its own id:
\* SessionManager.Allocate and Add, ClientWorker.Dispatch.
THEOREM TypeCorrect == Spec => []TypeOK
<1>1. MuxInv => TypeOK
  <2> SUFFICES ASSUME MuxInv PROVE TypeOK
    OBVIOUS
  <2>1. MuxTypes /\ Placed
    BY DEF MuxInv
  <2>2. \A x \in Sides : receiver[x].pc \in {"header", "copy", "reply", "lost", "ended"}
    BY <2>1 DEF MuxTypes, Receivers
  <2> QED
    BY <2>1, <2>2 DEF MuxTypes, Placed, TypeOK
<1> QED
  BY <1>1, MuxAlways, PTL

\* Whatever sessions share the mux connection, and whatever number of reads a
\* chunk takes, the chunks a connection is handed are its own, in order and
\* without gaps, as long as no output closes within a chunk: the id in a frame
\* leads fetchOutput and run to the right session, or to none.  Once a chunk is
\* torn (buf.Copy's nil for io.ErrClosedPipe) nothing is claimed.
THEOREM DataIsOwn == Spec => []OwnDataInOrder
<1>1. MuxInv => OwnDataInOrder
  BY DEF MuxInv, Arrived, OwnDataInOrder
<1> QED
  BY <1>1, MuxAlways, PTL

-----------------------------------------------------------------------------
(* A client that closes itself is idle *)

\* The monitor closes the client's manager, and nobody else.
LEMMA ClosedMoves ==
  ASSUME MuxInv, Next
  PROVE  \/ CloseIfNoSession \/ MonitorCloses \/ MonitorTick \/ MonitorDisconnects
         \/ closed'["client"] = closed["client"] /\ monitor' = monitor
<1>a. closed \in [Sides -> BOOLEAN] /\ "client" \in Sides /\ "client" # "server"
  BY DEF MuxInv, MuxTypes, Sides
<1>1. ASSUME NEW c \in Conns, DispatchBegins(c) \/ Allocate(c) \/ Launch(c) \/ FirstPayload(c)
      PROVE  closed' = closed /\ monitor' = monitor
  BY <1>1 DEF DispatchBegins, Allocate, Launch, FirstPayload, tables, worker
<1>2. ASSUME NEW x \in Sides, NEW c \in Conns, Copy(x, c) \/ WriterClose(x, c) \/ SenderCloses(x, c) \/ Finish(x, c) \/ Abort(x, c)
      PROVE  closed' = closed /\ monitor' = monitor
  BY <1>2 DEF Copy, WriterClose, SenderCloses, Finish, Abort, tables, worker
<1>3. ASSUME handleStatusNew PROVE closed' = closed /\ monitor' = monitor
  BY <1>3 DEF handleStatusNew, worker
<1>4. ASSUME NEW x \in Sides, handleStatusKeep(x) \/ handleStatusEnd(x) \/ Reply(x) \/ CopyPiece(x)
      PROVE  closed' = closed /\ monitor' = monitor
  BY <1>4 DEF handleStatusKeep, handleStatusEnd, Reply, CopyPiece, tables, worker
<1>5. ASSUME NEW x \in Sides, ReceiverEnds(x) PROVE closed'["client"] = closed["client"] /\ monitor' = monitor
  <2>1. monitor' = monitor /\ (closed' = closed \/ closed' = [closed EXCEPT !["server"] = TRUE])
    BY <1>5 DEF ReceiverEnds, ManagerClose
  <2> QED
    BY <2>1, <1>a
<1>6. ASSUME LinkFails PROVE closed' = closed /\ monitor' = monitor
  BY <1>6 DEF LinkFails, tables
<1> QED
  BY <1>1, <1>2, <1>3, <1>4, <1>5, <1>6 DEF Next, SenderStep, ReceiverStep, MonitorStep, Application

LEMMA ReceiverStays ==
  ASSUME MuxInv, Next, NEW x \in Sides, receiver[x].pc = "ended"
  PROVE  receiver'[x] = receiver[x]
<1>a. receiver \in [Sides -> Receivers] /\ "server" \in Sides
  BY DEF MuxInv, MuxTypes, Sides
<1>R. ASSUME NEW y \in Sides, NEW q, receiver' = [receiver EXCEPT ![y] = q], receiver[y].pc # "ended"
      PROVE  receiver'[x] = receiver[x]
  BY <1>R, <1>a
<1>1. ASSUME NEW c \in Conns, DispatchBegins(c) \/ Allocate(c) \/ Launch(c) \/ FirstPayload(c) PROVE receiver' = receiver
  BY <1>1 DEF DispatchBegins, Allocate, Launch, FirstPayload
<1>2. ASSUME NEW y \in Sides, NEW c \in Conns, Copy(y, c) \/ WriterClose(y, c) \/ SenderCloses(y, c) \/ Finish(y, c) \/ Abort(y, c)
      PROVE  receiver' = receiver
  BY <1>2 DEF Copy, WriterClose, SenderCloses, Finish, Abort
<1>3. ASSUME handleStatusNew PROVE receiver'[x] = receiver[x]
  <2>1. \E q : receiver' = [receiver EXCEPT !["server"] = q]
    BY <1>3 DEF handleStatusNew
  <2> QED
    BY <2>1, <1>3, <1>R, <1>a DEF handleStatusNew, HasFrame
<1>4. ASSUME NEW y \in Sides, handleStatusKeep(y) PROVE receiver'[x] = receiver[x]
  <2>1. \E q : receiver' = [receiver EXCEPT ![y] = q]
    BY <1>4 DEF handleStatusKeep
  <2> QED
    BY <2>1, <1>4, <1>R DEF handleStatusKeep, HasFrame
<1>5. ASSUME NEW y \in Sides, handleStatusEnd(y) PROVE receiver' = receiver
  BY <1>5 DEF handleStatusEnd
<1>6. ASSUME NEW y \in Sides, Reply(y) \/ CopyPiece(y) \/ ReceiverEnds(y) PROVE receiver'[x] = receiver[x]
  <2>1. \E q : receiver' = [receiver EXCEPT ![y] = q]
    BY <1>6 DEF Reply, CopyPiece, ReceiverEnds
  <2>2. receiver[y].pc # "ended"
    BY <1>6 DEF Reply, CopyPiece, ReceiverEnds
  <2> QED
    BY <2>1, <2>2, <1>R
<1>7. ASSUME MonitorTick \/ MonitorDisconnects \/ LinkFails \/ CloseIfNoSession \/ MonitorCloses PROVE receiver' = receiver
  BY <1>7 DEF MonitorTick, MonitorDisconnects, LinkFails, CloseIfNoSession, MonitorCloses
<1> QED
  BY <1>1, <1>2, <1>3, <1>4, <1>5, <1>6, <1>7 DEF Next, SenderStep, ReceiverStep, MonitorStep, Application

\* Who takes a session from the table.
Leaves(x, c) ==
  \/ SenderCloses(x, c)
  \/ handleStatusEnd(x) /\ Get(x, NextFrame(x).id) = c /\ NextFrame(x).id = id[c]
  \/ closed'[x] /\ (done \/ ~linkUp)

LEMMA WhoLeaves ==
  ASSUME MuxInv, Next, NEW x \in Sides, NEW c \in Conns, id[c] \in Ids, table[x][id[c]] = c, table'[x][id[c]] # c
  PROVE  Leaves(x, c)
<1>t. MuxTypes /\ table \in [Sides -> [Ids -> Conns \cup {None}]] /\ closed \in [Sides -> BOOLEAN]
  BY DEF MuxInv, MuxTypes
<1>n. \A d, e \in Conns : id[d] = id[e] /\ id[d] # 0 => d = e
  BY DEF MuxInv, Numbered
<1>z. id[c] # 0
  BY DEF Ids
<1>s. "client" \in Sides /\ "client" # "server" /\ None \notin Conns
  BY ConstantsAssumption DEF Sides
<1>a. /\ table \in [Sides -> [Ids -> Conns \cup {None}]] /\ closed \in [Sides -> BOOLEAN]
      /\ "client" \in Sides /\ "client" # "server" /\ None \notin Conns /\ MuxTypes
      /\ \A d, e \in Conns : id[d] = id[e] /\ id[d] # 0 => d = e
      /\ id[c] # 0
  BY <1>t, <1>n, <1>z, <1>s
<1>U. table' # table
  OBVIOUS
<1>1. ASSUME NEW d \in Conns, DispatchBegins(d) \/ Launch(d) \/ FirstPayload(d) PROVE FALSE
  BY <1>1, <1>U DEF DispatchBegins, Launch, FirstPayload, tables
<1>2. ASSUME NEW d \in Conns, Allocate(d) PROVE FALSE
  <2>1. CASE closed["client"]
    BY <2>1, <1>2, <1>U, AllocateClosed DEF tables
  <2>2. CASE ~closed["client"]
    <3>1. /\ count + 1 \in Ids /\ \A y \in Sides, i \in Ids : table'[y][i] = IF y = "client" /\ i = count + 1 THEN d ELSE table[y][i]
      BY <2>2, <1>2, AllocateOpen
    <3>2. id[c] <= count /\ count \in Nat
      BY DEF MuxInv, MuxTypes, Numbered
    <3>3. id[c] # count + 1
      BY <3>2
    <3> QED
      BY <3>1, <3>3
  <2> QED
    BY <2>1, <2>2
<1>3. ASSUME NEW y \in Sides, NEW d \in Conns, Copy(y, d) \/ WriterClose(y, d) \/ Finish(y, d) \/ Abort(y, d) PROVE FALSE
  BY <1>3, <1>U DEF Copy, WriterClose, Finish, Abort, tables
<1>4. ASSUME NEW y \in Sides, NEW d \in Conns, SenderCloses(y, d) PROVE Leaves(x, c)
  <2>1. table' = Remove(y, id[d])
    BY <1>4 DEF SenderCloses, SessionClose
  <2>2. x = y /\ id[c] = id[d]
    BY <2>1, <1>a, RemoveRemoves
  <2>3. c = d
    BY <2>2, <1>a
  <2> QED
    BY <2>2, <2>3, <1>4 DEF Leaves
<1>5. ASSUME handleStatusNew PROVE FALSE
  <2>1. PICK f, d : f = NextFrame("server") /\ d = f.conn
    OBVIOUS
  <2>2. d \in Conns /\ \A y \in Sides, i \in Ids : table'[y][i] = IF y = "server" /\ i = id[d] THEN d ELSE table[y][i]
    BY <2>1, <1>5, NewArrives
  <2>3. x = "server" /\ id[c] = id[d] /\ table'[x][id[c]] = d
    BY <2>2
  <2> QED
    BY <2>2, <2>3, <1>a
<1>6. ASSUME NEW y \in Sides, handleStatusKeep(y) \/ Reply(y) \/ CopyPiece(y) PROVE FALSE
  BY <1>6, <1>U DEF handleStatusKeep, Reply, CopyPiece, tables
<1>7. ASSUME NEW y \in Sides, handleStatusEnd(y) PROVE Leaves(x, c)
  <2>1. PICK f, e : f = NextFrame(y) /\ e = Get(y, f.id)
    OBVIOUS
  <2>2. e # None /\ (table' = Remove(y, f.id) \/ table' = Remove(y, id[e]))
    BY <2>1, <1>7, <1>U DEF handleStatusEnd, SessionClose
  <2>3. f.id \in Ids /\ table[y][f.id] = e
    BY <2>1, <2>2 DEF Get
  <2>4. e \in Conns /\ id[e] = f.id
    BY <2>2, <2>3, <1>a DEF MuxInv, Placed
  <2>5. table' = Remove(y, f.id)
    BY <2>2, <2>4
  <2>6. x = y /\ id[c] = f.id
    BY <2>5, <1>a, RemoveRemoves
  <2>7. e = c
    BY <2>3, <2>6
  <2> QED
    BY <2>1, <2>6, <2>7, <1>7 DEF Leaves
<1>8. ASSUME NEW y \in Sides, ReceiverEnds(y) PROVE Leaves(x, c)
  <2>1. y = "server" /\ ManagerClose(y) /\ ~linkUp
    BY <1>8, <1>U DEF ReceiverEnds
  <2>2. closed' = [closed EXCEPT ![y] = TRUE] /\ x = y
    BY <2>1, <1>a, ManagerCloses
  <2> QED
    BY <2>1, <2>2, <1>a DEF Leaves
<1>9. ASSUME MonitorTick \/ CloseIfNoSession \/ MonitorDisconnects \/ LinkFails PROVE FALSE
  BY <1>9, <1>U DEF MonitorTick, CloseIfNoSession, MonitorDisconnects, LinkFails, tables
<1>10. ASSUME MonitorCloses PROVE Leaves(x, c)
  <2>1. ManagerClose("client") /\ done
    BY <1>10, <1>U DEF MonitorCloses
  <2>2. closed' = [closed EXCEPT !["client"] = TRUE] /\ x = "client"
    BY <2>1, <1>a, ManagerCloses
  <2> QED
    BY <2>1, <2>2, <1>a DEF Leaves
<1> QED
  BY <1>1, <1>2, <1>3, <1>4, <1>5, <1>6, <1>7, <1>8, <1>9, <1>10 DEF Next, SenderStep, ReceiverStep, MonitorStep, Application

\* An output whose session leaves a table that stays is shut.
LEMMA LeavingShuts ==
  ASSUME MuxInv, NEW x \in Sides, NEW c \in Conns, Leaves(x, c), ~closed'[x]
  PROVE  output'[x][c] # "open"
<1>a. output \in [Sides -> [Conns -> {"open", "closed", "errord"}]] /\ None \notin Conns
  BY ConstantsAssumption DEF MuxInv, MuxTypes
<1>1. CASE SenderCloses(x, c)
  <2>1. output' = Shut(output, x, c, "closed")
    BY <1>1 DEF SenderCloses, SessionClose
  <2> QED
    BY <2>1, <1>a, ShutShuts
<1>2. CASE handleStatusEnd(x) /\ Get(x, NextFrame(x).id) = c
  <2>1. output' = Shut(output, x, c, "closed") \/ output' = Shut(output, x, c, "errord")
    BY <1>2, <1>a DEF handleStatusEnd, SessionClose
  <2> QED
    BY <2>1, <1>a, ShutShuts
<1> QED
  BY <1>1, <1>2 DEF Leaves

LEMMA ClientTableStep ==
  ASSUME MuxInv, IdleInv, Next, NEW c \in Conns, ~closed'["client"], Alive("client", c)', output'["client"][c] = "open"
  PROVE  table'["client"][id'[c]] = c
<1>s. "client" \in Sides /\ "client" # "server"
  BY DEF Sides
<1>o. output["client"][c] = "open"
  BY <1>s, OutputWas
<1>1. ASSUME UNCHANGED id, Alive("client", c), ~closed["client"]
      PROVE  table'["client"][id'[c]] = c
  <2>1. table["client"][id[c]] = c
    BY <1>1, <1>o DEF IdleInv
  <2>2. id[c] \in Ids
    BY <1>1, HasId DEF Alive, MuxInv
  <2>3. table'["client"][id[c]] # c => Leaves("client", c)
    BY <2>1, <2>2, <1>s, WhoLeaves
  <2>4. ~Leaves("client", c)
    BY <1>s, LeavingShuts
  <2> QED
    BY <2>3, <2>4, <1>1
<1>2. CASE Steady
  <2>1. UNCHANGED id /\ Alive("client", c) /\ ~closed["client"]
    BY <1>2, <1>s DEF Steady, SendersGoOn, WorkersEnd, Alive
  <2> QED
    BY <2>1, <1>1
<1>3. ASSUME NEW d \in Conns, Allocate(d), ~closed["client"]
      PROVE  table'["client"][id'[c]] = c
  <2>1. /\ \A e \in Conns : id'[e] = IF e = d THEN count + 1 ELSE id[e]
        /\ \A y \in Sides, i \in Ids : table'[y][i] = IF y = "client" /\ i = count + 1 THEN d ELSE table[y][i]
        /\ \A y \in Sides, e \in Conns : sender'[y][e] = IF y = "client" /\ e = d THEN "allocated" ELSE sender[y][e]
        /\ count + 1 \in Ids
    BY <1>3, AllocateOpen
  <2>2. CASE c = d
    BY <2>1, <2>2, <1>s
  <2>3. CASE c # d
    <3>1. Alive("client", c)
      BY <2>1, <2>3, <1>s DEF Alive
    <3>2. table["client"][id[c]] = c /\ id[c] \in Ids
      BY <3>1, <1>o, <1>3, HasId DEF IdleInv, MuxInv, Alive
    <3>3. id[c] <= count /\ count \in Nat
      BY DEF MuxInv, MuxTypes, Numbered
    <3>4. id[c] # count + 1
      BY <3>3
    <3> QED
      BY <2>1, <2>3, <3>2, <3>4, <1>s
  <2> QED
    BY <2>2, <2>3
<1>4. ASSUME NEW d \in Conns, Allocate(d), closed["client"] PROVE Steady
  BY <1>4, AllocateClosed
<1>5. CASE handleStatusNew
  <2>1. PICK f, d : f = NextFrame("server") /\ d = f.conn
    OBVIOUS
  <2>2. /\ UNCHANGED <<id, closed>>
        /\ \A y \in Sides, e \in Conns : sender'[y][e] = IF y = "server" /\ e = d THEN "copy" ELSE sender[y][e]
    BY <2>1, <1>5, NewArrives
  <2>3. Alive("client", c)
    BY <2>2, <1>s DEF Alive
  <2> QED
    BY <2>2, <2>3, <1>1
<1> QED
  BY <1>2, <1>3, <1>4, <1>5, SteadySteps

LEMMA IdleSteps == MuxInv /\ IdleInv /\ [Next]_vars => IdleInv'
<1>s. "client" \in Sides /\ "client" # "server" /\ None \notin Conns
  BY ConstantsAssumption DEF Sides
<1>1. CASE UNCHANGED vars
  <2>u. UNCHANGED <<count, table, closed, id, sender, output, receiver, monitor>>
    BY <1>1 DEF vars, tables, flows, worker
  <2> QED
    BY <2>u DEF IdleInv, Alive, IdleCloses
<1>2. ASSUME MuxInv, IdleInv, Next PROVE IdleInv'
  <2>a. closed \in [Sides -> BOOLEAN]
    BY <1>2 DEF MuxInv, MuxTypes
  <2>1. monitor' = "idle" => ~closed'["client"]
    <3>1. CASE MonitorTick
      BY <3>1, <1>2 DEF MonitorTick, MuxInv, Ended, tables
    <3>2. CASE CloseIfNoSession \/ MonitorCloses \/ MonitorDisconnects
      BY <3>2 DEF CloseIfNoSession, MonitorCloses, MonitorDisconnects
    <3> QED
      BY <3>1, <3>2, <1>2, ClosedMoves DEF IdleInv
  <2>2. \A c \in Conns : ~closed'["client"] /\ Alive("client", c)' /\ output'["client"][c] = "open" => table'["client"][id'[c]] = c
    BY <1>2, ClientTableStep
  <2>3. IdleCloses'
    <3> SUFFICES ASSUME closed'["client"], receiver'["client"].pc # "ended", monitor' = "wait", NEW c \in Conns
                 PROVE  sender'["client"][c] \in {"none", "dispatching"} \/ output'["client"][c] # "open"
      BY DEF IdleCloses
    <3>1. receiver["client"].pc # "ended"
      BY <1>2, <1>s, ReceiverStays
    <3>2. CASE CloseIfNoSession
      <4>1. monitor = "idle" /\ ~closed["client"] /\ UNCHANGED <<sender, output, table, id>>
        BY <3>2, <1>2 DEF CloseIfNoSession, IdleInv, flows
      <4>2. Size("client") = 0
        BY <3>2, <4>1 DEF CloseIfNoSession
      <4>3. \A i \in Ids : table["client"][i] = None
        <5>1. IsFiniteSet(Ids)
          BY ConstantsAssumption, FS_CardinalityType, FS_Interval DEF Ids
        <5>2. IsFiniteSet({i \in Ids : table["client"][i] # None})
          BY <5>1, FS_Subset
        <5>3. {i \in Ids : table["client"][i] # None} = {}
          BY <5>2, <4>2, FS_EmptySet DEF Size
        <5> QED
          BY <5>3
      <4>4. Alive("client", c) => id[c] \in Ids
        BY <1>2, HasId DEF Alive, MuxInv
      <4>5. ~(Alive("client", c) /\ output["client"][c] = "open")
        BY <4>1, <4>3, <4>4, <1>2, <1>s DEF IdleInv
      <4> QED
        BY <4>1, <4>5 DEF Alive
    <3>3. CASE MonitorCloses \/ MonitorTick \/ MonitorDisconnects
      BY <3>3 DEF MonitorCloses, MonitorTick, MonitorDisconnects
    <3>4. CASE closed'["client"] = closed["client"] /\ monitor' = monitor
      <4>1. sender["client"][c] \in {"none", "dispatching"} \/ output["client"][c] # "open"
        BY <3>1, <3>4, <1>2 DEF IdleInv, IdleCloses
      <4>2. output'["client"][c] = "open" => output["client"][c] = "open"
        BY <1>2, <1>s, OutputWas
      <4>3. sender["client"][c] \in {"none", "dispatching"} => sender'["client"][c] \in {"none", "dispatching"}
        <5>1. CASE Steady
          BY <5>1 DEF Steady, SendersGoOn
        <5>2. ASSUME NEW d \in Conns, Allocate(d) PROVE Steady
          BY <5>2, <3>4, <1>2, AllocateClosed
        <5>3. CASE handleStatusNew
          <6>1. \A e \in Conns : sender'["client"][e] = sender["client"][e]
            BY <5>3, <1>2, <1>s, NewArrives
          <6> QED
            BY <6>1
        <5> QED
          BY <5>1, <5>2, <5>3, <1>2, SteadySteps
      <4> QED
        BY <4>1, <4>2, <4>3
    <3> QED
      BY <3>2, <3>3, <3>4, <1>2, ClosedMoves
  <2> QED
    BY <2>1, <2>2, <2>3 DEF IdleInv
<1> QED
  BY <1>1, <1>2

\* Closing an idle client cuts no connection that still waits for its answer:
\* CloseIfNoSession looks at the table again under the lock that Allocate
\* takes.  (Until a chunk is torn.)
THEOREM IdleOnly == Spec => []OnlyIdleCloses
<1>1. Init => IdleInv
  <2> SUFFICES ASSUME Init PROVE IdleInv
    OBVIOUS
  <2>1. /\ closed = [x \in Sides |-> FALSE] /\ sender = [x \in Sides |-> [c \in Conns |-> "none"]] /\ monitor = "wait"
        /\ "client" \in Sides
    BY DEF Init, Sides
  <2>2. ~closed["client"] /\ \A c \in Conns : ~Alive("client", c)
    BY <2>1 DEF Alive
  <2> QED
    BY <2>1, <2>2 DEF IdleInv, IdleCloses
<1>2. IdleInv => OnlyIdleCloses
  BY DEF IdleInv, IdleCloses, OnlyIdleCloses
<1> QED
  BY <1>1, <1>2, IdleSteps, MuxAlways, PTL DEF Spec

-----------------------------------------------------------------------------
(* Clean ends: what moves senders, inputs, outputs and End frames *)

\* Who moves a sender.
LEMMA SenderMoves ==
  ASSUME MuxInv, Next, NEW x \in Sides, NEW c \in Conns
  PROVE  \/ sender'[x][c] = sender[x][c]
         \/ x = "client" /\ sender'[x][c] \in Early
         \/ x = "client" /\ FirstPayload(c)
         \/ x = "server" /\ handleStatusNew /\ NextFrame("server").conn = c
         \/ Copy(x, c) \/ WriterClose(x, c) \/ SenderCloses(x, c)
<1> DEFINE G == \/ sender'[x][c] = sender[x][c]
                \/ x = "client" /\ sender'[x][c] \in Early
                \/ x = "client" /\ FirstPayload(c)
                \/ x = "server" /\ handleStatusNew /\ NextFrame("server").conn = c
                \/ Copy(x, c) \/ WriterClose(x, c) \/ SenderCloses(x, c)
<1>a. sender \in [Sides -> [Conns -> States]] /\ "client" \in Sides /\ "server" \in Sides
  BY DEF MuxInv, MuxTypes, Sides
<1>R. ASSUME NEW y \in Sides, NEW d \in Conns, NEW s, sender' = [sender EXCEPT ![y][d] = s]
      PROVE  (~(y = x /\ d = c) => sender'[x][c] = sender[x][c]) /\ sender'[y][d] = s
  BY <1>R, <1>a
<1>U. sender' = sender => G
  OBVIOUS
<1>1. ASSUME NEW d \in Conns, DispatchBegins(d) \/ Allocate(d) \/ Launch(d) PROVE G
  <2>1. \E s \in Early : sender' = [sender EXCEPT !["client"][d] = s]
    BY <1>1 DEF DispatchBegins, Allocate, Launch, Early
  <2> QED
    BY <2>1, <1>R, <1>a
<1>2. ASSUME NEW d \in Conns, FirstPayload(d) PROVE G
  <2>1. \E s : sender' = [sender EXCEPT !["client"][d] = s]
    BY <1>2 DEF FirstPayload
  <2> QED
    BY <2>1, <1>2, <1>R, <1>a
<1>3. ASSUME NEW y \in Sides, NEW d \in Conns, Copy(y, d) \/ WriterClose(y, d) \/ SenderCloses(y, d) PROVE G
  <2>1. \E s : sender' = [sender EXCEPT ![y][d] = s]
    BY <1>3 DEF Copy, WriterClose, SenderCloses
  <2> QED
    BY <2>1, <1>3, <1>R
<1>4. ASSUME handleStatusNew PROVE G
  <2>1. PICK f, d : f = NextFrame("server") /\ d = f.conn
    OBVIOUS
  <2>2. \A y \in Sides, e \in Conns : sender'[y][e] = IF y = "server" /\ e = d THEN "copy" ELSE sender[y][e]
    BY <2>1, <1>4, NewArrives
  <2> QED
    BY <2>1, <2>2, <1>4
<1> HIDE DEF G
<1>5. ASSUME NEW y \in Sides, NEW d \in Conns, Finish(y, d) \/ Abort(y, d) PROVE G
  BY <1>5, <1>U DEF Finish, Abort
<1>6. ASSUME NEW y \in Sides, handleStatusKeep(y) \/ handleStatusEnd(y) \/ Reply(y) \/ CopyPiece(y) \/ ReceiverEnds(y) PROVE G
  BY <1>6, <1>U DEF handleStatusKeep, handleStatusEnd, Reply, CopyPiece, ReceiverEnds
<1>7. ASSUME MonitorTick \/ CloseIfNoSession \/ MonitorCloses \/ MonitorDisconnects \/ LinkFails PROVE G
  BY <1>7, <1>U DEF MonitorTick, CloseIfNoSession, MonitorCloses, MonitorDisconnects, LinkFails
<1> QED
  BY <1>1, <1>2, <1>3, <1>4, <1>5, <1>6, <1>7 DEF Next, SenderStep, ReceiverStep, MonitorStep, Application, G

\* An input that is not open stays as it is, and nothing is added to it.
LEMMA InputStays ==
  ASSUME MuxInv, Next, NEW x \in Sides, NEW c \in Conns, input[x][c] # "open"
  PROVE  input'[x][c] = input[x][c] /\ (waiting[x][c] = 0 => waiting'[x][c] = 0)
<1> DEFINE G == input'[x][c] = input[x][c] /\ (waiting[x][c] = 0 => waiting'[x][c] = 0)
<1>a. /\ input \in [Sides -> [Conns -> {"open", "closed", "errord"}]] /\ waiting \in [Sides -> [Conns -> Nat]]
      /\ "client" \in Sides /\ None \notin Conns /\ table \in [Sides -> [Ids -> Conns \cup {None}]]
  BY ConstantsAssumption DEF MuxInv, MuxTypes, Sides
<1>I. ASSUME NEW y \in Sides, NEW d \in Conns, NEW how \in {"closed", "errord"}, input' = Shut(input, y, d, how)
      PROVE  input'[x][c] = input[x][c]
  BY <1>I, <1>a DEF Shut
<1>W. ASSUME NEW y \in Sides, NEW d \in Conns, waiting' = [waiting EXCEPT ![y][d] = IF @ > 0 THEN @ - 1 ELSE 0]
      PROVE  waiting[x][c] = 0 => waiting'[x][c] = 0
  BY <1>W, <1>a
<1>U. input' = input /\ waiting' = waiting => G
  OBVIOUS
<1>1. ASSUME NEW d \in Conns, DispatchBegins(d) \/ Allocate(d) \/ Launch(d) PROVE G
  BY <1>1 DEF DispatchBegins, Allocate, Launch, flows
<1>2. ASSUME NEW d \in Conns, FirstPayload(d) PROVE G
  <2>1. input' = input \/ input' = Shut(input, "client", d, "errord")
    BY <1>2 DEF FirstPayload
  <2>2. waiting' = waiting \/ waiting' = [waiting EXCEPT !["client"][d] = IF @ > 0 THEN @ - 1 ELSE 0]
    BY <1>2 DEF FirstPayload, SendData
  <2> QED
    BY <2>1, <2>2, <1>I, <1>W, <1>a
<1>3. ASSUME NEW y \in Sides, NEW d \in Conns, Copy(y, d) PROVE G
  <2>1. input' = input /\ (waiting' = waiting \/ waiting' = [waiting EXCEPT ![y][d] = IF @ > 0 THEN @ - 1 ELSE 0])
    BY <1>3 DEF Copy, SendData
  <2> QED
    BY <2>1, <1>W
<1>4. ASSUME NEW y \in Sides, NEW d \in Conns, Finish(y, d) PROVE G
  <2>1. input' = Shut(input, y, d, "closed") /\ input[y][d] = "open" /\ \E n : waiting' = [waiting EXCEPT ![y][d] = n]
    BY <1>4 DEF Finish
  <2>2. ~(y = x /\ d = c)
    BY <2>1
  <2> QED
    BY <2>1, <2>2, <1>I, <1>a
<1>5. ASSUME NEW y \in Sides, NEW d \in Conns, Abort(y, d) PROVE G
  BY <1>5, <1>I DEF Abort
<1>6. ASSUME NEW y \in Sides, handleStatusEnd(y) PROVE G
  <2>1. \/ input' = input
        \/ Get(y, NextFrame(y).id) # None /\ input' = Shut(input, y, Get(y, NextFrame(y).id), "errord")
    BY <1>6, Zenon DEF handleStatusEnd
  <2>2. Get(y, NextFrame(y).id) # None => Get(y, NextFrame(y).id) \in Conns
    BY <1>a DEF Get
  <2>3. waiting' = waiting
    BY <1>6 DEF handleStatusEnd
  <2>4. CASE input' = input
    BY <2>3, <2>4
  <2>5. CASE Get(y, NextFrame(y).id) # None /\ input' = Shut(input, y, Get(y, NextFrame(y).id), "errord")
    BY <2>2, <2>3, <2>5, <1>I
  <2> QED
    BY <2>1, <2>4, <2>5
<1> HIDE DEF G
<1>7. ASSUME NEW y \in Sides, NEW d \in Conns, WriterClose(y, d) \/ SenderCloses(y, d) PROVE G
  BY <1>7, <1>U DEF WriterClose, SenderCloses, flows
<1>8. ASSUME handleStatusNew PROVE G
  BY <1>8, <1>U DEF handleStatusNew, flows
<1>9. ASSUME NEW y \in Sides, handleStatusKeep(y) \/ Reply(y) \/ CopyPiece(y) \/ ReceiverEnds(y) PROVE G
  BY <1>9, <1>U DEF handleStatusKeep, Reply, CopyPiece, ReceiverEnds, flows
<1>10. ASSUME MonitorTick \/ CloseIfNoSession \/ MonitorCloses \/ MonitorDisconnects \/ LinkFails PROVE G
  BY <1>10, <1>U DEF MonitorTick, CloseIfNoSession, MonitorCloses, MonitorDisconnects, LinkFails, flows
<1> QED
  BY <1>1, <1>2, <1>3, <1>4, <1>5, <1>6, <1>7, <1>8, <1>9, <1>10
     DEF Next, SenderStep, ReceiverStep, MonitorStep, Application, G

\* Who shuts the output of a client.
LEMMA OutputCloses ==
  ASSUME MuxInv, Next, NEW c \in Conns, output'["client"][c] # output["client"][c]
  PROVE  /\ output["client"][c] = "open" /\ id[c] # 0
         /\ \/ SenderCloses("client", c)
            \/ done
            \/ output'["client"][c] = "errord"
            \/ handleStatusEnd("client") /\ Get("client", NextFrame("client").id) = c /\ ~NextFrame("client").error
<1> DEFINE G == /\ output["client"][c] = "open" /\ id[c] # 0
                /\ \/ SenderCloses("client", c)
                   \/ done
                   \/ output'["client"][c] = "errord"
                   \/ handleStatusEnd("client") /\ Get("client", NextFrame("client").id) = c /\ ~NextFrame("client").error
<1>a. /\ output \in [Sides -> [Conns -> {"open", "closed", "errord"}]] /\ table \in [Sides -> [Ids -> Conns \cup {None}]]
      /\ "client" \in Sides /\ "server" \in Sides /\ "client" # "server" /\ None \notin Conns /\ MuxTypes
  BY ConstantsAssumption DEF MuxInv, MuxTypes, Sides
<1>I. ASSUME NEW y \in Sides, NEW d \in Conns, NEW how \in {"closed", "errord"}, output' = Shut(output, y, d, how)
      PROVE  y = "client" /\ d = c /\ output["client"][c] = "open" /\ output'["client"][c] = how
  BY <1>I, <1>a DEF Shut
<1>P. ASSUME NEW i \in Ids, table["client"][i] = c PROVE id[c] # 0
  BY <1>P, <1>a DEF MuxInv, Placed, Ids
<1>U. output' # output
  OBVIOUS
<1>1. ASSUME NEW d \in Conns, DispatchBegins(d) \/ Allocate(d) \/ Launch(d) \/ FirstPayload(d) PROVE G
  BY <1>1, <1>U DEF DispatchBegins, Allocate, Launch, FirstPayload, flows
<1>2. ASSUME NEW y \in Sides, NEW d \in Conns, Copy(y, d) \/ WriterClose(y, d) \/ Finish(y, d) PROVE G
  BY <1>2, <1>U DEF Copy, WriterClose, Finish, flows
<1>3. ASSUME NEW y \in Sides, NEW d \in Conns, SenderCloses(y, d) PROVE G
  <2>1. output' = Shut(output, y, d, "closed") /\ sender[y][d] = "close"
    BY <1>3 DEF SenderCloses, SessionClose
  <2>2. y = "client" /\ d = c /\ output["client"][c] = "open"
    BY <2>1, <1>I
  <2>3. id[c] # 0
    BY <2>1, <2>2 DEF MuxInv, Numbered
  <2> QED
    BY <2>2, <2>3, <1>3
<1>4. ASSUME NEW y \in Sides, NEW d \in Conns, Abort(y, d) PROVE G
  <2>1. output' = Shut(output, y, d, "errord") /\ Alive(y, d)
    BY <1>4 DEF Abort
  <2>2. y = "client" /\ d = c /\ output["client"][c] = "open" /\ output'["client"][c] = "errord"
    BY <2>1, <1>I
  <2>3. id[c] # 0
    BY <2>1, <2>2 DEF MuxInv, Numbered, Alive
  <2> QED
    BY <2>2, <2>3
<1>5. ASSUME NEW y \in Sides, handleStatusEnd(y) PROVE G
  <2> DEFINE d == Get(y, NextFrame(y).id)
  <2>1. \/ output' = output
        \/ d # None /\ NextFrame(y).error /\ output' = Shut(output, y, d, "errord")
        \/ d # None /\ ~NextFrame(y).error /\ output' = Shut(output, y, d, "closed")
    BY <1>5, Zenon DEF handleStatusEnd, SessionClose
  <2>2. d # None => d \in Conns /\ NextFrame(y).id \in Ids /\ table[y][NextFrame(y).id] = d
    BY <1>a DEF Get
  <2> HIDE DEF d
  <2>3. CASE d # None /\ NextFrame(y).error /\ output' = Shut(output, y, d, "errord")
    <3>1. y = "client" /\ d = c /\ output["client"][c] = "open" /\ output'["client"][c] = "errord"
      BY <2>2, <2>3, <1>I
    <3> QED
      BY <3>1, <2>2, <2>3, <1>P
  <2>4. CASE d # None /\ ~NextFrame(y).error /\ output' = Shut(output, y, d, "closed")
    <3>1. y = "client" /\ d = c /\ output["client"][c] = "open"
      BY <2>2, <2>4, <1>I
    <3>2. id[c] # 0
      BY <3>1, <2>2, <2>4, <1>P
    <3> QED
      BY <3>1, <3>2, <2>4, <1>5 DEF d
  <2> QED
    BY <2>1, <2>3, <2>4, <1>U
<1>6. ASSUME NEW y \in Sides, ReceiverEnds(y) PROVE G
  <2>1. ManagerClose("server")
    BY <1>6, <1>U DEF ReceiverEnds
  <2> QED
    BY <2>1, <1>a, ManagerCloses
<1>7. ASSUME MonitorCloses PROVE G
  <2>1. ManagerClose("client") /\ done
    BY <1>7, <1>U DEF MonitorCloses
  <2>2. output["client"][c] = "open" /\ \E i \in Ids : table["client"][i] = c
    BY <2>1, <1>a, ManagerCloses
  <2> QED
    BY <2>1, <2>2, <1>P
<1>8. ASSUME handleStatusNew PROVE G
  BY <1>8, <1>U DEF handleStatusNew, flows
<1>9. ASSUME NEW y \in Sides, handleStatusKeep(y) \/ Reply(y) \/ CopyPiece(y) PROVE G
  BY <1>9, <1>U DEF handleStatusKeep, Reply, CopyPiece, flows
<1>10. ASSUME MonitorTick \/ CloseIfNoSession \/ MonitorDisconnects \/ LinkFails PROVE G
  BY <1>10, <1>U DEF MonitorTick, CloseIfNoSession, MonitorDisconnects, LinkFails, flows
<1> HIDE DEF G
<1> QED
  BY <1>1, <1>2, <1>3, <1>4, <1>5, <1>6, <1>7, <1>8, <1>9, <1>10
     DEF Next, SenderStep, ReceiverStep, MonitorStep, Application, G

\* Who sends an End frame.
LEMMA EndsFrom ==
  ASSUME MuxInv, Next, NEW x \in Sides, NEW f \in Frames, link'[x] = Append(link[x], f), f.status = "End"
  PROVE  \/ \E c \in Conns : WriterClose(x, c) /\ f = EndFrame(id[c], sender[x][c] = "error")
         \/ Reply(x) /\ f = EndFrame(receiver[x].id, FALSE)
<1> DEFINE G == \/ \E c \in Conns : WriterClose(x, c) /\ f = EndFrame(id[c], sender[x][c] = "error")
                \/ Reply(x) /\ f = EndFrame(receiver[x].id, FALSE)
<1>a. MuxTypes /\ Numbered /\ Framed
  BY DEF MuxInv
<1>s. "client" \in Sides /\ "server" \in Sides /\ "client" # "server"
  BY SidesAndPeers
<1>l. link \in [Sides -> Seq(Frames)]
  BY <1>a DEF MuxTypes
<1>b. link[x] \in Seq(Frames) /\ Len(link[x]) \in Nat /\ Len(link'[x]) = Len(link[x]) + 1
  BY <1>l
<1>U. link' # link
  BY <1>b
<1>T. ASSUME NEW y \in Sides, Take(y), link[Peer(y)] # <<>> PROVE FALSE
  <2>1. link'[x] = link[x] \/ (link[x] # <<>> /\ link'[x] = Tail(link[x]))
    BY <1>T, <1>a, TakeTakes
  <2>2. link[x] # <<>> => Len(Tail(link[x])) = Len(link[x]) - 1
    BY <1>b
  <2> QED
    BY <2>1, <2>2, <1>b
<1>S. ASSUME NEW y \in Sides, NEW g \in Frames, Send(y, g), linkUp' = linkUp
      PROVE  y = x /\ f = g
  <2>1. /\ x # y => link'[x] = link[x]
        /\ IF linkUp THEN link'[y] = Append(link[y], g) ELSE link'[y] = link[y]
    BY <1>S, <1>a, SendSends
  <2>2. link'[x] # link[x]
    BY <1>b
  <2>3. y = x /\ Append(link[x], g) = Append(link[x], f)
    BY <2>1, <2>2
  <2> QED
    BY <2>3, <1>b
<1>1. ASSUME NEW c \in Conns, DispatchBegins(c) \/ Allocate(c) \/ Launch(c) PROVE FALSE
  BY <1>1, <1>U DEF DispatchBegins, Allocate, Launch
<1>2. ASSUME NEW c \in Conns, FirstPayload(c) PROVE FALSE
  <2>1. \/ Send("client", Frame(id[c], "New", c, sent["client"][c] + 1, FALSE))
        \/ Send("client", Frame(id[c], "New", c, 0, FALSE))
    BY <1>2, <1>U DEF FirstPayload, SendData
  <2>2. Frame(id[c], "New", c, sent["client"][c] + 1, FALSE) \in Frames /\ Frame(id[c], "New", c, 0, FALSE) \in Frames
    BY <1>a, <1>s, SentFrame
  <2>3. linkUp' = linkUp
    BY <1>2 DEF FirstPayload, worker
  <2>4. f = Frame(id[c], "New", c, sent["client"][c] + 1, FALSE) \/ f = Frame(id[c], "New", c, 0, FALSE)
    BY <2>1, <2>2, <2>3, <1>S, <1>s
  <2> QED
    BY <2>4 DEF Frame
<1>3. ASSUME NEW y \in Sides, NEW c \in Conns, Copy(y, c) PROVE FALSE
  <2>1. Send(y, Frame(id[c], "Keep", c, sent[y][c] + 1, FALSE)) /\ linkUp' = linkUp
    BY <1>3, <1>U DEF Copy, SendData, worker
  <2>2. Frame(id[c], "Keep", c, sent[y][c] + 1, FALSE) \in Frames
    BY <1>a, <1>s, SentFrame
  <2>3. f = Frame(id[c], "Keep", c, sent[y][c] + 1, FALSE)
    BY <2>1, <2>2, <1>S
  <2> QED
    BY <2>3 DEF Frame
<1>4. ASSUME NEW y \in Sides, NEW c \in Conns, WriterClose(y, c) PROVE G
  <2>1. Send(y, EndFrame(id[c], sender[y][c] = "error")) /\ linkUp' = linkUp
    BY <1>4 DEF WriterClose, worker
  <2>2. EndFrame(id[c], sender[y][c] = "error") \in Frames
    BY <1>a, SentFrame
  <2>3. y = x /\ f = EndFrame(id[c], sender[y][c] = "error")
    BY <2>1, <2>2, <1>S
  <2> QED
    BY <2>3, <1>4
<1>5. ASSUME NEW y \in Sides, Reply(y) PROVE G
  <2>1. Send(y, EndFrame(receiver[y].id, FALSE)) /\ linkUp' = linkUp
    BY <1>5 DEF Reply, worker
  <2>2. EndFrame(receiver[y].id, FALSE) \in Frames
    <3>1. receiver[y].id \in Nat
      BY <1>a DEF MuxTypes, Receivers
    <3> QED
      BY <3>1 DEF EndFrame, Frame, Frames
  <2>3. y = x /\ f = EndFrame(receiver[y].id, FALSE)
    BY <2>1, <2>2, <1>S
  <2> QED
    BY <2>3, <1>5
<1> HIDE DEF G
<1>6. ASSUME NEW y \in Sides, NEW c \in Conns, SenderCloses(y, c) \/ Finish(y, c) \/ Abort(y, c) PROVE FALSE
  BY <1>6, <1>U DEF SenderCloses, Finish, Abort
<1>7. ASSUME handleStatusNew PROVE FALSE
  BY <1>7, <1>T, <1>s DEF handleStatusNew, HasFrame
<1>8. ASSUME NEW y \in Sides, handleStatusKeep(y) PROVE FALSE
  BY <1>8, <1>T DEF handleStatusKeep, HasFrame
<1>9. ASSUME NEW y \in Sides, handleStatusEnd(y) PROVE FALSE
  BY <1>9, <1>T DEF handleStatusEnd, HasFrame
<1>10. ASSUME NEW y \in Sides, CopyPiece(y) \/ ReceiverEnds(y) PROVE FALSE
  BY <1>10, <1>U DEF CopyPiece, ReceiverEnds
<1>11. ASSUME MonitorTick \/ CloseIfNoSession \/ MonitorCloses PROVE FALSE
  BY <1>11, <1>U DEF MonitorTick, CloseIfNoSession, MonitorCloses
<1>12. ASSUME MonitorDisconnects \/ LinkFails PROVE FALSE
  <2>1. link'[x] = <<>>
    BY <1>12 DEF MonitorDisconnects, LinkFails, Disconnect
  <2>2. Len(link'[x]) = 0
    BY <2>1
  <2> QED
    BY <2>2, <1>b
<1> QED
  BY <1>1, <1>2, <1>3, <1>4, <1>5, <1>6, <1>7, <1>8, <1>9, <1>10, <1>11, <1>12
     DEF Next, SenderStep, ReceiverStep, MonitorStep, Application, G

\* Where the id of a receiver comes from, and when it replies.
LEMMA ReceiverMoves ==
  ASSUME MuxInv, Next, NEW x \in Sides
  PROVE  \/ receiver'[x] = receiver[x]
         \/ receiver'[x].pc # "reply" /\ receiver'[x].id \in {0, receiver[x].id}
         \/ /\ link[Peer(x)] # <<>> /\ receiver'[x].id = NextFrame(x).id
            /\ receiver'[x].pc = "reply" => handleStatusKeep(x) /\ Get(x, NextFrame(x).id) = None
<1> DEFINE G == \/ receiver'[x] = receiver[x]
                \/ receiver'[x].pc # "reply" /\ receiver'[x].id \in {0, receiver[x].id}
                \/ /\ link[Peer(x)] # <<>> /\ receiver'[x].id = NextFrame(x).id
                   /\ receiver'[x].pc = "reply" => handleStatusKeep(x) /\ Get(x, NextFrame(x).id) = None
<1>a. receiver \in [Sides -> Receivers] /\ "client" \in Sides /\ "server" \in Sides /\ "client" # "server"
  BY DEF MuxInv, MuxTypes, Sides
<1>R. ASSUME NEW y \in Sides, NEW q, receiver' = [receiver EXCEPT ![y] = q]
      PROVE  (y # x => receiver'[x] = receiver[x]) /\ receiver'[y] = q
  BY <1>R, <1>a
<1>U. receiver' = receiver => G
  OBVIOUS
<1>1. ASSUME handleStatusNew PROVE G
  <2>1. PICK f, c : f = NextFrame("server") /\ c = f.conn
    OBVIOUS
  <2>2. /\ receiver'["client"] = receiver["client"] /\ link["client"] # <<>> /\ f \in Frames /\ c \in Conns
        /\ receiver'["server"] = IF f.num = 0 THEN Header ELSE Copying(c, f)
    BY <2>1, <1>1, NewArrives
  <2>3. x = "server" => receiver'[x].pc # "reply" /\ (receiver'[x].id = 0 \/ receiver'[x].id = f.id)
    BY <2>2, HeaderIs, CopyingType
  <2> QED
    BY <2>1, <2>2, <2>3, <1>a, SidesAndPeers
<1>2. ASSUME NEW y \in Sides, handleStatusKeep(y) PROVE G
  <2>1. PICK f, c : f = NextFrame(y) /\ c = f.conn
    OBVIOUS
  <2>2. /\ link[Peer(y)] # <<>> /\ f \in Frames /\ c \in Conns
        /\ receiver' = [receiver EXCEPT ![y] = IF Get(y, f.id) = None THEN Replying(f) ELSE Copying(c, f)]
    BY <2>1, <1>2, KeepIsOwn
  <2>3. receiver'[y].id = f.id /\ (receiver'[y].pc = "reply" => Get(y, f.id) = None)
    <3>1. receiver'[y] = IF Get(y, f.id) = None THEN Replying(f) ELSE Copying(c, f)
      BY <2>2, <1>a
    <3> QED
      BY <3>1, <2>2, CopyingType
  <2>4. x # y => receiver'[x] = receiver[x]
    BY <2>2, <1>a
  <2>5. x = y => G
    BY <2>1, <2>2, <2>3, <1>2
  <2> QED
    BY <2>4, <2>5
<1>3. ASSUME NEW y \in Sides, Reply(y) PROVE G
  BY <1>3, <1>R, HeaderIs DEF Reply
<1>4. ASSUME NEW y \in Sides, CopyPiece(y) PROVE G
  <2>1. \/ receiver' = [receiver EXCEPT ![y] = [receiver[y] EXCEPT !.left = @ - 1]]
        \/ receiver' = [receiver EXCEPT ![y] = [receiver[y] EXCEPT !.pc = "lost"]]
        \/ receiver' = [receiver EXCEPT ![y] = Header]
    BY <1>4 DEF CopyPiece
  <2>2. receiver[y].pc = "copy" /\ receiver[y] \in Receivers
    BY <1>4, <1>a DEF CopyPiece
  <2>3. /\ [receiver[y] EXCEPT !.left = @ - 1].pc = "copy" /\ [receiver[y] EXCEPT !.left = @ - 1].id = receiver[y].id
        /\ [receiver[y] EXCEPT !.pc = "lost"].pc = "lost" /\ [receiver[y] EXCEPT !.pc = "lost"].id = receiver[y].id
    BY <2>2 DEF Receivers
  <2>4. \E q : receiver' = [receiver EXCEPT ![y] = q] /\ q.pc # "reply" /\ (q.id = 0 \/ q.id = receiver[y].id)
    <3>1. CASE receiver' = [receiver EXCEPT ![y] = Header]
      BY <3>1, HeaderIs
    <3>2. CASE receiver' = [receiver EXCEPT ![y] = [receiver[y] EXCEPT !.left = @ - 1]]
      <4>1. PICK q : q = [receiver[y] EXCEPT !.left = @ - 1]
        OBVIOUS
      <4> QED
        BY <3>2, <4>1, <2>3
    <3>3. CASE receiver' = [receiver EXCEPT ![y] = [receiver[y] EXCEPT !.pc = "lost"]]
      <4>1. PICK q : q = [receiver[y] EXCEPT !.pc = "lost"]
        OBVIOUS
      <4> QED
        BY <3>3, <4>1, <2>3
    <3> QED
      BY <2>1, <3>1, <3>2, <3>3
  <2>5. PICK q : receiver' = [receiver EXCEPT ![y] = q] /\ q.pc # "reply" /\ (q.id = 0 \/ q.id = receiver[y].id)
    BY <2>4
  <2>6. (y # x => receiver'[x] = receiver[x]) /\ receiver'[y] = q
    BY <2>5, <1>R
  <2> QED
    BY <2>5, <2>6
<1>5. ASSUME NEW y \in Sides, ReceiverEnds(y) PROVE G
  BY <1>5, <1>R, HeaderIs DEF ReceiverEnds
<1> HIDE DEF G
<1>6. ASSUME NEW c \in Conns, DispatchBegins(c) \/ Allocate(c) \/ Launch(c) \/ FirstPayload(c) PROVE G
  BY <1>6, <1>U DEF DispatchBegins, Allocate, Launch, FirstPayload
<1>7. ASSUME NEW y \in Sides, NEW c \in Conns, Copy(y, c) \/ WriterClose(y, c) \/ SenderCloses(y, c) \/ Finish(y, c) \/ Abort(y, c) PROVE G
  BY <1>7, <1>U DEF Copy, WriterClose, SenderCloses, Finish, Abort
<1>8. ASSUME NEW y \in Sides, handleStatusEnd(y) PROVE G
  BY <1>8, <1>U DEF handleStatusEnd
<1>9. ASSUME MonitorTick \/ CloseIfNoSession \/ MonitorCloses \/ MonitorDisconnects \/ LinkFails PROVE G
  BY <1>9, <1>U DEF MonitorTick, CloseIfNoSession, MonitorCloses, MonitorDisconnects, LinkFails
<1> QED
  BY <1>1, <1>2, <1>3, <1>4, <1>5, <1>6, <1>7, <1>8, <1>9 DEF Next, SenderStep, ReceiverStep, MonitorStep, Application, G

\* The New frame of a connection goes out with its first payload, ...
LEMMA FirstGoes ==
  ASSUME MuxInv, Next, NEW c \in Conns, FirstPayload(c), sender'["client"][c] = "copy"
  PROVE  news(link'["client"], c) # {}
<1>a. /\ MuxTypes /\ Numbered /\ Framed
      /\ sender \in [Sides -> [Conns -> States]] /\ "client" \in Sides /\ link["client"] \in Seq(Frames)
  BY DEF MuxInv, MuxTypes, Sides
<1>1. /\ linkUp /\ linkUp' = linkUp
      /\ \/ Send("client", Frame(id[c], "New", c, sent["client"][c] + 1, FALSE))
         \/ Send("client", Frame(id[c], "New", c, 0, FALSE))
  BY <1>a DEF FirstPayload, SendData, worker
<1>2. Frame(id[c], "New", c, sent["client"][c] + 1, FALSE) \in Frames /\ Frame(id[c], "New", c, 0, FALSE) \in Frames
  BY <1>a, SentFrame
<1>3. isNew(Frame(id[c], "New", c, sent["client"][c] + 1, FALSE), c) /\ isNew(Frame(id[c], "New", c, 0, FALSE), c)
  BY DEF isNew, Frame
<1>4. PICK f \in Frames : Send("client", f) /\ isNew(f, c)
  BY <1>1, <1>2, <1>3
<1>5. link'["client"] = Append(link["client"], f)
  BY <1>1, <1>4, <1>a, SendSends
<1>6. PICK w, v : w = link["client"] /\ v = link'["client"]
  OBVIOUS
<1>7. w \in Seq(Frames) /\ v = Append(w, f)
  BY <1>5, <1>6, <1>a
<1>8. Len(w) + 1 \in news(v, c)
  BY <1>4, <1>7, AppendNews
<1> QED
  BY <1>6, <1>8

\* ... and is taken by handleStatusNew alone.
LEMMA NewTaken ==
  ASSUME MuxInv, Next, link["client"] # <<>>, link'["client"] = Tail(link["client"]), linkUp', link["client"][1].status = "New"
  PROVE  handleStatusNew
<1>a. /\ MuxTypes /\ Numbered /\ Framed /\ link \in [Sides -> Seq(Frames)] /\ link["client"] \in Seq(Frames)
      /\ "client" \in Sides /\ "server" \in Sides /\ Peer("server") = "client" /\ Peer("client") = "server"
  BY SidesAndPeers DEF MuxInv, MuxTypes
<1>b. Len(link["client"]) \in Nat /\ Len(link["client"]) # 0 /\ Len(link'["client"]) = Len(link["client"]) - 1
  BY <1>a
<1>U. ASSUME link'["client"] = link["client"] PROVE FALSE
  <2>1. Len(link["client"]) = Len(link["client"]) - 1
    BY <1>b, <1>U
  <2> QED
    BY <2>1, <1>b
<1>S. ASSUME NEW y \in Sides, NEW f, Send(y, f), linkUp' = linkUp PROVE FALSE
  <2>1. /\ y # "client" => link'["client"] = link["client"]
        /\ link'[y] = link[y] \/ link'[y] = Append(link[y], f)
    BY <1>S, <1>a, SendSends
  <2>2. Len(Append(link["client"], f)) = Len(link["client"]) + 1
    BY <1>a
  <2>3. link'["client"] # Append(link["client"], f)
    BY <2>2, <1>b
  <2> QED
    BY <2>1, <2>3, <1>U
<1>T. ASSUME NEW y \in Sides, Take(y), HasFrame(y, "Keep") \/ HasFrame(y, "End") PROVE FALSE
  <2>1. y = "server"
    BY <1>T, <1>U, <1>a, TakeTakes, SidesAndPeers
  <2>2. NextFrame(y) = link["client"][1]
    BY <2>1, <1>a DEF NextFrame
  <2> QED
    BY <2>2, <1>T DEF HasFrame
<1>1. ASSUME NEW c \in Conns, DispatchBegins(c) \/ Allocate(c) \/ Launch(c) PROVE FALSE
  BY <1>1, <1>U DEF DispatchBegins, Allocate, Launch
<1>2. ASSUME NEW c \in Conns, FirstPayload(c) PROVE FALSE
  <2>1. (\E f : Send("client", f)) /\ linkUp' = linkUp
    BY <1>2, <1>U DEF FirstPayload, SendData, worker
  <2> QED
    BY <2>1, <1>S, <1>a
<1>3. ASSUME NEW y \in Sides, NEW c \in Conns, Copy(y, c) \/ WriterClose(y, c) PROVE FALSE
  <2>1. (\E f : Send(y, f)) /\ linkUp' = linkUp
    BY <1>3, <1>U DEF Copy, WriterClose, SendData, worker
  <2> QED
    BY <2>1, <1>S
<1>4. ASSUME NEW y \in Sides, Reply(y) PROVE FALSE
  BY <1>4, <1>S DEF Reply, worker
<1>5. ASSUME NEW y \in Sides, handleStatusKeep(y) \/ handleStatusEnd(y) PROVE FALSE
  BY <1>5, <1>T DEF handleStatusKeep, handleStatusEnd
<1>6. ASSUME NEW y \in Sides, NEW c \in Conns, SenderCloses(y, c) \/ Finish(y, c) \/ Abort(y, c) PROVE FALSE
  BY <1>6, <1>U DEF SenderCloses, Finish, Abort
<1>7. ASSUME NEW y \in Sides, CopyPiece(y) \/ ReceiverEnds(y) PROVE FALSE
  BY <1>7, <1>U DEF CopyPiece, ReceiverEnds
<1>8. ASSUME MonitorTick \/ CloseIfNoSession \/ MonitorCloses PROVE FALSE
  BY <1>8, <1>U DEF MonitorTick, CloseIfNoSession, MonitorCloses
<1>9. ASSUME MonitorDisconnects \/ LinkFails PROVE FALSE
  BY <1>9 DEF MonitorDisconnects, LinkFails, Disconnect
<1> QED
  BY <1>1, <1>2, <1>3, <1>4, <1>5, <1>6, <1>7, <1>8, <1>9 DEF Next, SenderStep, ReceiverStep, MonitorStep, Application

-----------------------------------------------------------------------------
(* Clean ends: the parts of the invariant *)

LEMMA CountGrows ==
  ASSUME MuxInv, Next
  PROVE  /\ count \in Nat /\ count' \in Nat /\ count <= count'
         /\ \A c \in Conns : id[c] # 0 => id'[c] = id[c]
<1>1. count \in Nat
  BY DEF MuxInv, MuxTypes
<1>2. CASE Steady
  BY <1>1, <1>2 DEF Steady
<1>3. ASSUME NEW d \in Conns, Allocate(d), ~closed["client"]
      PROVE  count' = count + 1 /\ \A c \in Conns : id[c] # 0 => id'[c] = id[c]
  <2>1. count' = count + 1 /\ id[d] = 0 /\ \A c \in Conns : id'[c] = IF c = d THEN count + 1 ELSE id[c]
    BY <1>3, AllocateOpen
  <2> QED
    BY <2>1
<1>4. ASSUME NEW d \in Conns, Allocate(d), closed["client"] PROVE Steady
  BY <1>4, AllocateClosed
<1>5. CASE handleStatusNew
  BY <1>1, <1>5, NewArrives
<1> QED
  BY <1>1, <1>2, <1>3, <1>4, <1>5, SteadySteps

LEMMA DatedStep ==
  ASSUME MuxInv, EndInv, Next
  PROVE  Dated'
<1>a. /\ \A x \in Sides : receiver[x].id <= count /\ \A j \in 1 .. Len(link[x]) : link[x][j].id <= count
      /\ \A c \in Conns : id[c] <= count /\ id[c] \in Nat
      /\ \A c \in Conns : id[c] = 0 => output["client"][c] = "open"
  <2>1. \A x \in Sides : receiver[x].id <= count /\ \A j \in 1 .. Len(link[x]) : link[x][j].id <= count
    BY DEF EndInv, Dated
  <2>2. \A c \in Conns : id[c] \in Ids \cup {0}
    BY DEF MuxInv, MuxTypes
  <2>3. \A i \in Ids \cup {0} : i \in Nat
    BY DEF Ids
  <2>4. \A c \in Conns : id[c] <= count
    BY DEF MuxInv, Numbered
  <2>5. \A c \in Conns : id[c] = 0 => output["client"][c] = "open"
    BY DEF EndInv, Dated
  <2> QED
    BY <2>1, <2>2, <2>3, <2>4, <2>5
<1>c. count \in Nat /\ count' \in Nat /\ count <= count'
  BY CountGrows
<1>1. ASSUME NEW x \in Sides PROVE receiver'[x].id <= count'
  <2>1. receiver[x].id \in Nat
    BY DEF MuxInv, MuxTypes, Receivers
  <2>2. CASE receiver'[x].id \in {0, receiver[x].id}
    BY <2>1, <2>2, <1>a, <1>c
  <2>3. CASE link[Peer(x)] # <<>> /\ receiver'[x].id = NextFrame(x).id
    <3>1. /\ Peer(x) \in Sides /\ 1 \in 1 .. Len(link[Peer(x)])
          /\ NextFrame(x) = link[Peer(x)][1] /\ NextFrame(x) \in Frames
      BY <2>3, SidesAndPeers, NextIsAFrame DEF MuxInv
    <3>2. NextFrame(x).id <= count /\ NextFrame(x).id \in Nat
      BY <3>1, <1>a, FrameFields
    <3> QED
      BY <2>3, <3>2, <1>c
  <2> QED
    BY <2>2, <2>3, ReceiverMoves
<1>2. ASSUME NEW x \in Sides, NEW j \in 1 .. Len(link'[x]) PROVE link'[x][j].id <= count'
  <2>1. PICK f : f = link'[x][j]
    OBVIOUS
  <2>2. f \in Frames /\ f.id \in Nat
    BY <2>1, OldFrames, FrameFields
  <2>3. CASE \E k \in 1 .. Len(link[x]) : f = link[x][k]
    <3>1. PICK k \in 1 .. Len(link[x]) : f = link[x][k]
      BY <2>3
    <3>2. link[x][k].id <= count
      BY <1>a
    <3>3. f.id <= count
      BY <3>1, <3>2
    <3> QED
      BY <3>3, <2>1, <2>2, <1>c
  <2>4. CASE f.status # "End"
    <3>1. Marked(x, f)
      BY <2>1, WasMarked
    <3>2. f.conn \in Conns /\ f.id = id[f.conn]
      BY <3>1, <2>4 DEF Marked
    <3> QED
      BY <3>2, <2>1, <2>2, <1>a, <1>c
  <2>5. ASSUME f.status = "End", link'[x] = Append(link[x], f) PROVE f.id <= count
    <3>1. CASE \E c \in Conns : f = EndFrame(id[c], sender[x][c] = "error")
      BY <3>1, <1>a DEF EndFrame, Frame
    <3>2. CASE f = EndFrame(receiver[x].id, FALSE)
      BY <3>2, <1>a DEF EndFrame, Frame
    <3> QED
      BY <3>1, <3>2, <2>2, <2>5, EndsFrom
  <2>6. ASSUME ~\E k \in 1 .. Len(link[x]) : f = link[x][k] PROVE link'[x] = Append(link[x], f)
    <3>1. link[x] \in Seq(Frames) /\ Len(link[x]) \in Nat
      BY DEF MuxInv, MuxTypes
    <3>2. CASE link'[x] = link[x]
      BY <3>2, <2>1, <2>6
    <3>3. CASE link'[x] = <<>>
      BY <3>3
    <3>4. CASE link[x] # <<>> /\ link'[x] = Tail(link[x])
      <4>1. PICK w, v : w = link[x] /\ v = link'[x]
        OBVIOUS
      <4>2. \A i \in 1 .. Len(v) : v[i] = w[i + 1] /\ i + 1 \in 1 .. Len(w)
        BY <3>1, <3>4, <4>1, TakeFrame
      <4> QED
        BY <4>1, <4>2, <2>1, <2>6
    <3>5. ASSUME NEW g \in Frames, link'[x] = Append(link[x], g) PROVE link'[x] = Append(link[x], f)
      <4>1. PICK w, v : w = link[x] /\ v = link'[x]
        OBVIOUS
      <4>2. Len(v) = Len(w) + 1 /\ Len(w) \in Nat /\ (\A i \in 1 .. Len(w) : v[i] = w[i]) /\ v[Len(w) + 1] = g
        BY <3>1, <3>5, <4>1, AppendFrames
      <4>3. j = Len(w) + 1
        BY <4>1, <4>2, <2>1, <2>6
      <4> QED
        BY <4>1, <4>2, <4>3, <2>1, <3>5
    <3> QED
      BY <3>2, <3>3, <3>4, <3>5, LinkMoves
  <2> QED
    BY <2>1, <2>2, <2>3, <2>4, <2>5, <2>6, <1>c
<1>3. ASSUME NEW c \in Conns, id'[c] = 0 PROVE output'["client"][c] = "open"
  <2>1. id[c] = 0
    BY <1>3, CountGrows
  <2> QED
    BY <2>1, <1>a, OutputCloses
<1> QED
  BY <1>1, <1>2, <1>3 DEF Dated

LEMMA OverStays ==
  ASSUME MuxInv, Next, NEW x \in Sides, NEW c \in Conns, InputOver(x, c)
  PROVE  InputOver(x, c)'
  BY InputStays DEF InputOver

LEMMA AnsweredStep ==
  ASSUME MuxInv, EndInv, Next, NEW c \in Conns
  PROVE  Answered(c)'
<1>a. /\ sender["server"][c] # "error" /\ sender \in [Sides -> [Conns -> States]]
      /\ linkUp /\ sender["server"][c] \in {"end", "close", "gone"} => InputOver("server", c)
      /\ "server" \in Sides /\ "client" # "server"
  BY DEF EndInv, Answered, MuxInv, MuxTypes, Sides
<1>l. linkUp' => linkUp
  BY OutputWas
<1>1. CASE sender'["server"][c] = sender["server"][c]
  BY <1>1, <1>a, <1>l, OverStays DEF Answered
<1>2. CASE handleStatusNew /\ NextFrame("server").conn = c
  <2>1. sender'["server"][c] = "copy"
    <3>1. PICK f, d : f = NextFrame("server") /\ d = f.conn
      OBVIOUS
    <3>2. \A x \in Sides, e \in Conns : sender'[x][e] = IF x = "server" /\ e = d THEN "copy" ELSE sender[x][e]
      BY <1>2, <3>1, NewArrives
    <3> QED
      BY <3>1, <3>2, <1>2, <1>a
  <2> QED
    BY <2>1 DEF Answered
<1>3. CASE Copy("server", c)
  <2>1. /\ sender'["server"][c] = "copy" \/ sender'["server"][c] = "end"
        /\ linkUp' = linkUp
    BY <1>3, <1>a DEF Copy, worker
  <2>2. linkUp /\ sender'["server"][c] = "end" => InputOver("server", c)
    BY <1>3, <1>a DEF Copy
  <2> QED
    BY <2>1, <2>2, <1>a, OverStays DEF Answered
<1>4. CASE WriterClose("server", c) \/ SenderCloses("server", c)
  <2>1. /\ sender["server"][c] \in {"end", "error", "close"}
        /\ sender'["server"][c] = "close" \/ sender'["server"][c] = "gone"
    BY <1>4, <1>a DEF WriterClose, SenderCloses
  <2> QED
    BY <2>1, <1>a, <1>l, OverStays DEF Answered
<1> QED
  BY <1>1, <1>2, <1>3, <1>4, <1>a, SenderMoves

\* A connection that asks has asked before, or was just given its id.
Asks(c) ==
  /\ asking(c) /\ asking(c)' /\ id'[c] = id[c] /\ id[c] \in Ids /\ id[c] # 0
  /\ ~closed["client"] /\ ~closed'["client"]

LEMMA WasAsking ==
  ASSUME MuxInv, Next, NEW c \in Conns, asking(c)'
  PROVE  Asks(c) \/ (Allocate(c) /\ ~closed["client"])
<1>a. "client" \in Sides /\ "client" # "server" /\ linkUp' /\ ~done' /\ sender'["client"][c] \in {"allocated", "first", "copy"}
  BY DEF asking, Sides
<1>b. ~closed["client"] /\ ~closed'["client"] /\ ~done
  <2>1. ~done
    <3>1. ASSUME Steady PROVE ~done
      BY <3>1, <1>a DEF Steady, WorkersEnd
    <3>2. ASSUME NEW d \in Conns, Allocate(d) PROVE ~done
      BY <3>2, <1>a DEF Allocate, worker
    <3>3. ASSUME handleStatusNew PROVE ~done
      BY <3>3, <1>a DEF handleStatusNew, worker
    <3> QED
      BY <3>1, <3>2, <3>3, SteadySteps
  <2>2. MuxInv'
    BY MuxSteps
  <2> QED
    BY <2>1, <2>2, <1>a DEF MuxInv, Ended
<1>c. linkUp
  BY <1>a, OutputWas
<1>1. sender["client"][c] \in {"allocated", "first", "copy"} \/ (Allocate(c) /\ ~closed["client"])
  <2>1. CASE Steady
    BY <2>1, <1>a DEF Steady, SendersGoOn
  <2>2. ASSUME NEW d \in Conns, Allocate(d)
        PROVE  sender["client"][c] \in {"allocated", "first", "copy"} \/ (Allocate(c) /\ ~closed["client"])
    BY <2>2, <1>a, <1>b, AllocateOpen
  <2>3. CASE handleStatusNew
    <3>1. \A e \in Conns : sender'["client"][e] = sender["client"][e]
      BY <2>3, <1>a, NewArrives
    <3> QED
      BY <3>1, <1>a
  <2> QED
    BY <2>1, <2>2, <2>3, SteadySteps
<1>2. ASSUME sender["client"][c] \in {"allocated", "first", "copy"} PROVE Asks(c)
  <2>1. asking(c)
    BY <1>2, <1>b, <1>c DEF asking
  <2>2. id[c] \in Ids
    BY <1>2, HasId DEF MuxInv
  <2>3. id[c] # 0
    BY <2>2 DEF Ids
  <2>4. id'[c] = id[c]
    BY <2>3, CountGrows
  <2> QED
    BY <2>1, <2>2, <2>3, <2>4, <1>b DEF Asks
<1> QED
  BY <1>1, <1>2

LEMMA OverGoesOn ==
  ASSUME MuxInv, Next, NEW c \in Conns, over(c)
  PROVE  over(c)'
<1>1. CASE Steady
  BY <1>1 DEF Steady, SendersGoOn, over
<1>2. ASSUME NEW d \in Conns, Allocate(d) PROVE over(c)'
  <2>1. CASE closed["client"]
    BY <2>1, <1>2, <1>1, AllocateClosed
  <2>2. CASE ~closed["client"]
    <3>1. \A x \in Sides, e \in Conns : sender'[x][e] = IF x = "client" /\ e = d THEN "allocated" ELSE sender[x][e]
      BY <2>2, <1>2, AllocateOpen
    <3>2. sender'["server"][c] = sender["server"][c]
      BY <3>1, SidesAndPeers
    <3> QED
      BY <3>2 DEF over
  <2> QED
    BY <2>1, <2>2
<1>3. CASE handleStatusNew
  <2>1. PICK f, d : f = NextFrame("server") /\ d = f.conn
    OBVIOUS
  <2>2. /\ sender["server"][d] = "none"
        /\ \A x \in Sides, e \in Conns : sender'[x][e] = IF x = "server" /\ e = d THEN "copy" ELSE sender[x][e]
    BY <2>1, <1>3, NewArrives
  <2>3. sender'["server"][c] = sender["server"][c]
    BY <2>2, SidesAndPeers DEF over
  <2> QED
    BY <2>3 DEF over
<1> QED
  BY <1>1, <1>2, <1>3, SteadySteps

\* A connection that was just given its id is new to everybody.
LEMMA AllocatedStep ==
  ASSUME MuxInv, EndInv, NEW c \in Conns, Allocate(c), ~closed["client"]
  PROVE  Told(c)' /\ Kept(c)' /\ Complete(c)'
<1>1. /\ id'[c] = count + 1 /\ id[c] = 0 /\ count + 1 \in Ids /\ sender["client"][c] = "dispatching"
      /\ \A x \in Sides, i \in Ids : table'[x][i] = IF x = "client" /\ i = count + 1 THEN c ELSE table[x][i]
      /\ \A x \in Sides, d \in Conns : sender'[x][d] = IF x = "client" /\ d = c THEN "allocated" ELSE sender[x][d]
      /\ UNCHANGED <<flows, link, receiver, worker>>
  BY AllocateOpen
<1>2. UNCHANGED <<link, receiver, input, output, waiting, got, sent>>
  BY <1>1 DEF flows
<1>3. count \in Nat /\ link \in [Sides -> Seq(Frames)] /\ "client" \in Sides /\ "server" \in Sides /\ "client" # "server"
  BY DEF MuxInv, MuxTypes, Sides
<1>4. \A x \in Sides : receiver[x].id # count + 1
  <2>1. \A x \in Sides : receiver[x].id <= count
    BY DEF EndInv, Dated
  <2> QED
    BY <2>1, <1>3
<1>5. ASSUME NEW x \in Sides, NEW j \in ends(link[x], count + 1) PROVE FALSE
  <2>1. j \in 1 .. Len(link[x]) /\ link[x][j].id = count + 1
    BY <1>5, <1>3, Positions
  <2>2. link[x][j].id <= count
    BY <2>1 DEF EndInv, Dated
  <2> QED
    BY <2>1, <2>2, <1>3
<1>6. sender'["server"][c] = "none" /\ sender'["client"][c] = "allocated" /\ table'["client"][id'[c]] = c
  <2>1. sender["server"][c] = "none"
    BY <1>1 DEF MuxInv, Framed, Begun, Early
  <2> QED
    BY <2>1, <1>1, <1>3
<1>7. output'["client"][c] = "open"
  BY <1>1, <1>2 DEF EndInv, Dated
<1>8. Told(c)'
  BY <1>1, <1>2, <1>3, <1>4, <1>5 DEF Told
<1>9. Kept(c)'
  BY <1>6 DEF Kept
<1>10. Complete(c)'
  BY <1>7 DEF Complete
<1> QED
  BY <1>8, <1>9, <1>10

\* A frame of data that finds no session is of a connection that is over.
LEMMA UnknownIsOver ==
  ASSUME MuxInv, EndInv, NEW c \in Conns, Asks(c), NEW x \in Sides, handleStatusKeep(x),
         Get(x, NextFrame(x).id) = None, NextFrame(x).id = id[c]
  PROVE  over(c)
<1>1. PICK f, d : f = NextFrame(x) /\ d = f.conn
  OBVIOUS
<1>2. /\ f.status = "Keep" /\ d \in Conns /\ f.id = id[d] /\ id[d] \in Ids /\ link[Peer(x)] # <<>> /\ f = link[Peer(x)][1]
      /\ receiver[x].pc = "header" /\ Get(x, f.id) = IF ~closed[x] /\ table[x][id[d]] = d THEN d ELSE None
      /\ 1 \in data(link[Peer(x)], d)
  BY <1>1, KeepIsOwn
<1>3. d = c
  BY <1>1, <1>2 DEF MuxInv, Numbered, Asks
<1>4. closed[x] \in BOOLEAN /\ None \notin Conns /\ "client" # "server" /\ Peer("server") = "client" /\ (x = "client" \/ x = "server")
  BY ConstantsAssumption, SidesAndPeers DEF MuxInv, MuxTypes, Sides
<1>5. ~closed[x]
  BY <1>2, <1>4 DEF Asks, MuxInv, Ended
<1>6. table[x][id[c]] # c
  BY <1>1, <1>2, <1>3, <1>4, <1>5
<1>k. Kept(c)
  BY DEF EndInv, Asks
<1>7. CASE x = "client"
  BY <1>6, <1>7, <1>k DEF Kept
<1>8. CASE x = "server"
  <2>1. CASE sender["server"][c] # "none"
    BY <2>1, <1>6, <1>8, <1>k DEF Kept
  <2>2. CASE sender["server"][c] = "none"
    <3>1. 1 \in data(link["client"], c) /\ f = link["client"][1] /\ link["client"] \in Seq(Frames)
      BY <1>2, <1>3, <1>4, <1>8 DEF MuxInv, MuxTypes, Sides
    <3>b. Begun(c)
      BY DEF MuxInv, Framed
    <3>2. sender["client"][c] \notin Early
      BY <3>1, <3>b DEF Begun
    <3>3. sender["client"][c] = "copy"
      BY <3>2 DEF Asks, asking, Early
    <3>4. PICK j : j \in news(link["client"], c)
      BY <3>3, <2>2, <1>k DEF Kept
    <3>5. j <= 1
      BY <3>1, <3>4, <3>b DEF Begun
    <3>6. j \in Nat /\ j >= 1 /\ link["client"][j].status = "New"
      BY <3>1, <3>4, Positions
    <3>7. j = 1
      BY <3>5, <3>6
    <3> QED
      BY <3>1, <3>6, <3>7, <1>2
  <2> QED
    BY <2>1, <2>2
<1> QED
  BY <1>4, <1>7, <1>8

\* What becomes of the End frames of a connection.
LEMMA EndsMove ==
  ASSUME MuxInv, EndInv, Next, NEW c \in Conns, Asks(c), NEW x \in Sides, NEW i \in ends(link'[x], id[c])
  PROVE  /\ i \in 1 .. Len(link'[x]) /\ link'[x][i] \in Frames
         /\ over(c)' /\ (x = "server" => ~link'[x][i].error)
         /\ \/ link'[x] = link[x] /\ i \in ends(link[x], id[c])
            \/ link[x] # <<>> /\ link'[x] = Tail(link[x]) /\ i + 1 \in ends(link[x], id[c])
            \/ \E f \in Frames : link'[x] = Append(link[x], f) /\ i \in ends(link[x], id[c]) /\ Origin(x, f)
            \/ \E f \in Frames : link'[x] = Append(link[x], f) /\ i = Len(link[x]) + 1 /\ isEnd(f, id[c])
<1> DEFINE M == \/ link'[x] = link[x] /\ i \in ends(link[x], id[c])
                \/ link[x] # <<>> /\ link'[x] = Tail(link[x]) /\ i + 1 \in ends(link[x], id[c])
                \/ \E f \in Frames : link'[x] = Append(link[x], f) /\ i \in ends(link[x], id[c]) /\ Origin(x, f)
                \/ \E f \in Frames : link'[x] = Append(link[x], f) /\ i = Len(link[x]) + 1 /\ isEnd(f, id[c])
<1>t. /\ link[x] \in Seq(Frames) /\ link'[x] \in Seq(Frames) /\ Told(c) /\ id'[c] = id[c] /\ id[c] # 0
      /\ linkUp' /\ sender'["client"][c] \in {"allocated", "first", "copy"} /\ sender["server"][c] # "error"
      /\ sender \in [Sides -> [Conns -> States]] /\ \A d, e \in Conns : id[d] = id[e] /\ id[d] # 0 => d = e
  <2>1. link[x] \in Seq(Frames) /\ sender \in [Sides -> [Conns -> States]]
    BY DEF MuxInv, MuxTypes
  <2>2. link'[x] \in Seq(Frames)
    BY TypesStep DEF MuxTypes
  <2>3. \A d, e \in Conns : id[d] = id[e] /\ id[d] # 0 => d = e
    BY DEF MuxInv, Numbered
  <2> QED
    BY <2>1, <2>2, <2>3 DEF EndInv, Asks, asking, Answered
<1>w. PICK w, v : w = link[x] /\ v = link'[x]
  OBVIOUS
<1>v. v \in Seq(Frames) /\ w \in Seq(Frames) /\ i \in ends(v, id[c])
  BY <1>w, <1>t
<1>p. i \in 1 .. Len(v) /\ v[i] \in Frames /\ v[i].status = "End" /\ v[i].id = id[c]
  BY <1>v, Positions
<1>O. ASSUME NEW j \in ends(w, id[c]), v[i] = w[j]
      PROVE  over(c)' /\ (x = "server" => ~v[i].error)
  <2>1. over(c) /\ (x = "server" => ~w[j].error)
    BY <1>O, <1>w, <1>t DEF Told
  <2> QED
    BY <2>1, <1>O, OverGoesOn
<1>1. CASE link'[x] = link[x]
  <2>1. i \in ends(w, id[c]) /\ v[i] = w[i]
    BY <1>1, <1>v, <1>w
  <2> QED
    BY <2>1, <1>O, <1>p, <1>w, <1>1
<1>2. CASE link'[x] = <<>>
  BY <1>2, <1>p, <1>w
<1>3. CASE link[x] # <<>> /\ link'[x] = Tail(link[x])
  <2>1. i + 1 \in ends(w, id[c]) /\ v[i] = w[i + 1]
    BY <1>3, <1>v, <1>w, <1>p, TakeFrame
  <2> QED
    BY <2>1, <1>O, <1>p, <1>w, <1>3
<1>4. ASSUME NEW f \in Frames, link'[x] = Append(link[x], f), Origin(x, f)
      PROVE  over(c)' /\ (x = "server" => ~v[i].error) /\ M
  <2>1. Len(w) \in Nat /\ (\A k \in 1 .. Len(w) : v[k] = w[k]) /\ v[Len(w) + 1] = f
    BY <1>4, <1>v, <1>w, AppendFrames
  <2>2. i \in ends(w, id[c]) \/ (i = Len(w) + 1 /\ isEnd(f, id[c]))
    BY <1>4, <1>v, <1>w, AppendEnds
  <2>3. CASE i \in ends(w, id[c])
    <3>1. v[i] = w[i]
      BY <2>1, <2>3, <1>v, Positions
    <3>2. over(c)' /\ (x = "server" => ~v[i].error)
      BY <3>1, <2>3, <1>O
    <3>3. M
      BY <2>3, <1>4, <1>w
    <3> QED
      BY <3>2, <3>3
  <2>4. CASE i = Len(w) + 1 /\ isEnd(f, id[c])
    <3>1. M
      BY <2>4, <1>4, <1>w
    <3>2. f.status = "End" /\ f.id = id[c] /\ v[i] = f
      BY <2>1, <2>4 DEF isEnd
    <3>3. ASSUME NEW d \in Conns, WriterClose(x, d), f = EndFrame(id[d], sender[x][d] = "error")
          PROVE  over(c)' /\ (x = "server" => ~f.error)
      <4>1. f.id = id[d] /\ f.error = (sender[x][d] = "error")
        BY <3>3 DEF EndFrame, Frame
      <4>2. d = c
        BY <4>1, <3>2, <1>t
      <4>3. sender'[x][c] = "close"
        BY <3>3, <4>2, <1>t DEF WriterClose
      <4>4. x = "server"
        BY <4>3, <1>t, SidesAndPeers
      <4> QED
        BY <4>1, <4>2, <4>3, <4>4, <1>t DEF over
    <3>4. ASSUME Reply(x), f = EndFrame(receiver[x].id, FALSE)
          PROVE  over(c)' /\ ~f.error
      <4>1. f.id = receiver[x].id /\ f.error = FALSE
        BY <3>4 DEF EndFrame, Frame
      <4>2. receiver[x].pc = "reply" /\ receiver[x].id = id[c]
        BY <3>4, <4>1, <3>2 DEF Reply
      <4>3. over(c)
        BY <4>2, <1>t DEF Told
      <4> QED
        BY <4>1, <4>3, OverGoesOn
    <3>5. over(c)' /\ (x = "server" => ~f.error)
      BY <3>2, <3>3, <3>4, <1>4, EndsFrom
    <3> QED
      BY <3>1, <3>2, <3>5
  <2> QED
    BY <2>2, <2>3, <2>4
<1> QED
  BY <1>1, <1>2, <1>3, <1>4, <1>p, <1>w, LinkMoves

LEMMA ToldStep ==
  ASSUME MuxInv, EndInv, Next, NEW c \in Conns, Asks(c)
  PROVE  Told(c)'
<1>t. Told(c) /\ id'[c] = id[c] /\ "server" \in Sides /\ "client" # "server" /\ MuxInv'
  BY MuxSteps, SidesAndPeers DEF EndInv, Asks
<1>l. link["server"] \in Seq(Frames) /\ link'["server"] \in Seq(Frames)
  BY <1>t DEF MuxInv, MuxTypes
<1>1. ASSUME NEW x \in Sides, receiver'[x].pc = "reply", receiver'[x].id = id[c] PROVE over(c)'
  <2>1. CASE receiver'[x] = receiver[x]
    <3>1. over(c)
      BY <2>1, <1>1, <1>t DEF Told
    <3> QED
      BY <3>1, OverGoesOn
  <2>2. CASE handleStatusKeep(x) /\ Get(x, NextFrame(x).id) = None /\ receiver'[x].id = NextFrame(x).id
    <3>1. over(c)
      BY <2>2, <1>1, UnknownIsOver
    <3> QED
      BY <3>1, OverGoesOn
  <2> QED
    BY <2>1, <2>2, <1>1, ReceiverMoves
<1>2. ASSUME NEW x \in Sides, NEW i \in ends(link'[x], id[c]) PROVE over(c)'
  BY <1>2, EndsMove
<1>3. ASSUME NEW i \in ends(link'["server"], id[c]) PROVE ~link'["server"][i].error
  BY <1>3, <1>t, EndsMove
<1>4. ASSUME NEW i \in ends(link'["server"], id[c]), NEW j \in data(link'["server"], c) PROVE j < i
  <2>w. PICK w, v : w = link["server"] /\ v = link'["server"]
    OBVIOUS
  <2>v. v \in Seq(Frames) /\ w \in Seq(Frames) /\ i \in ends(v, id[c]) /\ j \in data(v, c)
    BY <2>w, <1>l, <1>4
  <2>o. \A k \in ends(w, id[c]), l \in data(w, c) : l < k
    BY <2>w, <1>t DEF Told
  <2>n. /\ \A l \in data(w, c) : l \in Nat /\ l >= 1 /\ l <= Len(w)
        /\ i \in Nat /\ j \in Nat /\ Len(w) \in Nat
    BY <2>v, Positions
  <2>1. CASE v = w
    BY <2>1, <2>v, <2>o
  <2>2. CASE w # <<>> /\ v = Tail(w) /\ i + 1 \in ends(w, id[c])
    <3>1. j + 1 \in data(w, c)
      BY <2>2, <2>v, TakeFrame
    <3>2. j + 1 < i + 1
      BY <3>1, <2>2, <2>o
    <3> QED
      BY <3>2, <2>n
  <2>3. ASSUME NEW f \in Frames, v = Append(w, f), i \in ends(w, id[c]), Origin("server", f) PROVE j < i
    <3>1. j \in data(w, c) \/ (j = Len(w) + 1 /\ isData(f, c))
      BY <2>3, <2>v, AppendData
    <3>2. ~isData(f, c)
      <4>1. over(c)
        BY <2>3, <2>w, <1>t DEF Told
      <4>2. sender["server"][c] # "copy"
        BY <4>1 DEF over
      <4>3. isData(f, c) => f.conn = c /\ f.status # "End"
        BY DEF isData
      <4>4. f.status # "End" => sender["server"][f.conn] = "copy"
        BY <2>3, <1>t DEF Origin
      <4> QED
        BY <4>2, <4>3, <4>4
    <3> QED
      BY <3>1, <3>2, <2>3, <2>o
  <2>4. ASSUME NEW f \in Frames, v = Append(w, f), i = Len(w) + 1, isEnd(f, id[c]) PROVE j < i
    <3>1. j \in data(w, c) \/ (j = Len(w) + 1 /\ isData(f, c))
      BY <2>4, <2>v, AppendData
    <3>2. ~isData(f, c)
      BY <2>4 DEF isData, isEnd
    <3>3. j <= Len(w)
      BY <3>1, <3>2, <2>n
    <3> QED
      BY <3>3, <2>4, <2>n
  <2>5. \/ v = w
        \/ w # <<>> /\ v = Tail(w) /\ i + 1 \in ends(w, id[c])
        \/ \E f \in Frames : v = Append(w, f) /\ i \in ends(w, id[c]) /\ Origin("server", f)
        \/ \E f \in Frames : v = Append(w, f) /\ i = Len(w) + 1 /\ isEnd(f, id[c])
    <3>1. \/ link'["server"] = link["server"] /\ i \in ends(link["server"], id[c])
          \/ link["server"] # <<>> /\ link'["server"] = Tail(link["server"]) /\ i + 1 \in ends(link["server"], id[c])
          \/ \E f \in Frames : link'["server"] = Append(link["server"], f) /\ i \in ends(link["server"], id[c]) /\ Origin("server", f)
          \/ \E f \in Frames : link'["server"] = Append(link["server"], f) /\ i = Len(link["server"]) + 1 /\ isEnd(f, id[c])
      BY <1>4, <1>t, EndsMove
    <3> QED
      BY <3>1, <2>w
  <2> QED
    BY <2>1, <2>2, <2>3, <2>4, <2>5
<1> QED
  BY <1>1, <1>2, <1>3, <1>4, <1>t DEF Told

LEMMA KeptStep ==
  ASSUME MuxInv, EndInv, Next, NEW c \in Conns, Asks(c)
  PROVE  Kept(c)'
<1>t. /\ Told(c) /\ Kept(c) /\ id'[c] = id[c] /\ id[c] \in Ids /\ "server" \in Sides /\ "client" \in Sides /\ "client" # "server"
      /\ linkUp /\ linkUp' /\ ~done /\ sender["client"][c] \in {"allocated", "first", "copy"}
      /\ sender'["client"][c] \in {"allocated", "first", "copy"} /\ sender \in [Sides -> [Conns -> States]]
      /\ Peer("client") = "server" /\ Peer("server") = "client"
  BY SidesAndPeers DEF EndInv, Asks, asking, MuxInv, MuxTypes
<1>L. ASSUME NEW x \in Sides, table[x][id[c]] = c, table'[x][id[c]] # c PROVE over(c)'
  <2>1. Leaves(x, c)
    BY <1>L, <1>t, WhoLeaves
  <2>2. CASE SenderCloses(x, c)
    <3>1. sender'[x][c] = "gone"
      BY <2>2, <1>t DEF SenderCloses
    <3>2. x = "server"
      BY <3>1, <1>t, SidesAndPeers
    <3> QED
      BY <3>1, <3>2 DEF over
  <2>3. CASE handleStatusEnd(x) /\ NextFrame(x).id = id[c]
    <3>1. link[Peer(x)] # <<>> /\ NextFrame(x).status = "End"
      BY <2>3 DEF handleStatusEnd, HasFrame
    <3>2. Peer(x) \in Sides /\ 1 \in 1 .. Len(link[Peer(x)]) /\ NextFrame(x) = link[Peer(x)][1]
      BY <3>1, NextIsAFrame, SidesAndPeers DEF MuxInv
    <3>3. 1 \in ends(link[Peer(x)], id[c])
      BY <2>3, <3>1, <3>2 DEF ends, isEnd
    <3>4. over(c)
      BY <3>2, <3>3, <1>t DEF Told
    <3> QED
      BY <3>4, OverGoesOn
  <2> QED
    BY <2>1, <2>2, <2>3, <1>t DEF Leaves
<1>1. ASSUME table'["client"][id[c]] # c PROVE over(c)'
  <2>1. CASE table["client"][id[c]] = c
    BY <2>1, <1>1, <1>L, <1>t
  <2>2. CASE table["client"][id[c]] # c
    <3>1. over(c)
      BY <2>2, <1>t DEF Kept
    <3> QED
      BY <3>1, OverGoesOn
  <2> QED
    BY <2>1, <2>2
<1>2. ASSUME sender'["server"][c] # "none", table'["server"][id[c]] # c PROVE over(c)'
  <2>1. CASE table["server"][id[c]] = c
    BY <2>1, <1>2, <1>L, <1>t
  <2>2. CASE table["server"][id[c]] # c /\ sender["server"][c] # "none"
    <3>1. over(c)
      BY <2>2, <1>t DEF Kept
    <3> QED
      BY <3>1, OverGoesOn
  <2>3. CASE sender["server"][c] = "none"
    <3>1. CASE handleStatusNew /\ NextFrame("server").conn = c
      <4>1. PICK f, d : f = NextFrame("server") /\ d = f.conn
        OBVIOUS
      <4>2. \A x \in Sides, i \in Ids : table'[x][i] = IF x = "server" /\ i = id[d] THEN d ELSE table[x][i]
        BY <3>1, <4>1, NewArrives
      <4> QED
        BY <3>1, <4>1, <4>2, <1>2, <1>t
    <3>2. ~(Copy("server", c) \/ WriterClose("server", c) \/ SenderCloses("server", c))
      BY <2>3 DEF Copy, WriterClose, SenderCloses
    <3> QED
      BY <3>1, <3>2, <2>3, <1>2, <1>t, SenderMoves
  <2> QED
    BY <2>1, <2>2, <2>3
<1>3. ASSUME sender'["client"][c] = "copy", sender'["server"][c] = "none" PROVE news(link'["client"], c) # {}
  <2>0. sender["server"][c] = "none"
    <3>1. CASE Steady
      BY <3>1, <1>3 DEF Steady, SendersGoOn
    <3>2. CASE sender'["server"][c] = sender["server"][c]
      BY <3>2, <1>3
    <3>3. CASE handleStatusNew /\ NextFrame("server").conn = c
      <4>1. PICK f, d : f = NextFrame("server") /\ d = f.conn
        OBVIOUS
      <4>2. sender["server"][d] = "none"
        BY <3>3, <4>1, NewArrives
      <4> QED
        BY <3>3, <4>1, <4>2
    <3>4. ASSUME Copy("server", c) PROVE FALSE
      BY <3>4, <1>3, <1>t DEF Copy
    <3>5. ASSUME WriterClose("server", c) PROVE FALSE
      BY <3>5, <1>3, <1>t DEF WriterClose
    <3>6. ASSUME SenderCloses("server", c) PROVE FALSE
      BY <3>6, <1>3, <1>t DEF SenderCloses
    <3> QED
      BY <3>2, <3>3, <3>4, <3>5, <3>6, <1>t, SenderMoves
  <2>1. CASE sender["client"][c] = "copy"
    <3>1. PICK j : j \in news(link["client"], c)
      BY <2>0, <2>1, <1>t DEF Kept
    <3>w. PICK w, v : w = link["client"] /\ v = link'["client"]
      OBVIOUS
    <3>v. w \in Seq(Frames) /\ j \in news(w, c)
      BY <3>1, <3>w, <1>t DEF MuxInv, MuxTypes
    <3>2. CASE v = w
      BY <3>2, <3>v, <3>w
    <3>3. CASE w # <<>> /\ v = Tail(w)
      <4>1. j # 1
        <5>1. ASSUME j = 1 PROVE FALSE
          <6>1. w[1].status = "New" /\ w[1].conn = c
            BY <5>1, <3>v, Positions
          <6>2. handleStatusNew
            BY <3>3, <3>w, <6>1, <1>t, NewTaken
          <6>3. PICK f, d : f = NextFrame("server") /\ d = f.conn
            OBVIOUS
          <6>4. /\ f = link["client"][1]
                /\ \A x \in Sides, e \in Conns : sender'[x][e] = IF x = "server" /\ e = d THEN "copy" ELSE sender[x][e]
            BY <6>2, <6>3, NewArrives
          <6>5. d = c
            BY <6>1, <6>3, <6>4, <3>w
          <6> QED
            BY <6>4, <6>5, <1>3, <1>t
        <5> QED
          BY <5>1
      <4>2. j \in Nat /\ j >= 1 /\ j <= Len(w) /\ Len(w) = Len(v) + 1 /\ Len(v) \in Nat
        BY <3>3, <3>v, Positions, TakeFrame
      <4>3. PICK k : k = j - 1
        OBVIOUS
      <4>4. k \in 1 .. Len(v) /\ k + 1 = j
        BY <4>1, <4>2, <4>3
      <4>5. k \in news(v, c)
        BY <4>4, <3>3, <3>v, TakeFrame
      <4> QED
        BY <4>5, <3>w
    <3>4. ASSUME NEW f \in Frames, v = Append(w, f) PROVE j \in news(v, c)
      BY <3>4, <3>v, AppendNews
    <3>5. \/ v = w
          \/ w # <<>> /\ v = Tail(w)
          \/ \E f \in Frames : v = Append(w, f)
      BY <3>w, <1>t, LinkMoves
    <3> QED
      BY <3>2, <3>3, <3>4, <3>5, <3>w
  <2>2. CASE sender["client"][c] # "copy"
    <3>1. ASSUME Copy("client", c) \/ WriterClose("client", c) \/ SenderCloses("client", c) PROVE FALSE
      BY <3>1, <2>2, <1>t DEF Copy, WriterClose, SenderCloses
    <3>2. FirstPayload(c)
      BY <2>2, <3>1, <1>3, <1>t, SenderMoves DEF Early
    <3> QED
      BY <3>2, <1>3, FirstGoes
  <2> QED
    BY <2>1, <2>2
<1> QED
  BY <1>1, <1>2, <1>3, <1>t DEF Kept

LEMMA CompleteStep ==
  ASSUME MuxInv, EndInv, Next, NEW c \in Conns, Asks(c)
  PROVE  Complete(c)'
<1>t. /\ Told(c) /\ Kept(c) /\ Complete(c) /\ Answered(c) /\ id[c] \in Ids /\ id[c] # 0
      /\ "server" \in Sides /\ "client" \in Sides /\ "client" # "server"
      /\ linkUp /\ ~done /\ ~closed["client"] /\ sender'["client"][c] \in {"allocated", "first", "copy"}
      /\ sender \in [Sides -> [Conns -> States]]
      /\ Peer("client") = "server" /\ Peer("server") = "client"
  BY SidesAndPeers DEF EndInv, Asks, asking, MuxInv, MuxTypes
<1> SUFFICES ASSUME output'["client"][c] = "closed", input'["server"][c] # "errord"
             PROVE  over(c)' /\ waiting'["server"][c] = 0 /\ Len(got'["client"][c]) = sent'["server"][c]
  BY DEF Complete
<1>1. input["server"][c] # "errord"
  BY <1>t, InputStays
<1>O. ASSUME over(c), got'["client"][c] = got["client"][c], Len(got["client"][c]) = sent["server"][c]
      PROVE  over(c)' /\ waiting'["server"][c] = 0 /\ Len(got'["client"][c]) = sent'["server"][c]
  <2>1. over(c)'
    BY <1>O, OverGoesOn
  <2>2. InputOver("server", c)
    BY <1>O, <1>t DEF Answered, over
  <2>3. waiting'["server"][c] = 0
    BY <2>2, <1>t, InputStays DEF InputOver
  <2>4. sent'["server"][c] = sent["server"][c]
    BY <1>O, <1>t, SentMoves DEF over
  <2> QED
    BY <2>1, <2>3, <2>4, <1>O
<1>2. CASE output["client"][c] = "closed"
  <2>1. over(c) /\ Len(got["client"][c]) = sent["server"][c]
    BY <1>1, <1>2, <1>t DEF Complete
  <2>2. got'["client"][c] = got["client"][c]
    BY <1>2, <1>t, Arrivals DEF Stays, Written, Lost, Comes
  <2> QED
    BY <2>1, <2>2, <1>O
<1>3. CASE output["client"][c] # "closed"
  <2>1. output["client"][c] = "open"
    BY <1>3, OutputCloses
  <2>2. ~SenderCloses("client", c)
    BY <1>t DEF SenderCloses
  <2>3. handleStatusEnd("client") /\ Get("client", NextFrame("client").id) = c /\ ~NextFrame("client").error
    BY <1>3, <2>2, <1>t, OutputCloses
  <2>4. /\ link["server"] # <<>> /\ NextFrame("client").status = "End" /\ receiver["client"].pc = "header" /\ got' = got
    BY <2>3, <1>t DEF handleStatusEnd, HasFrame
  <2>5. /\ NextFrame("client").id \in Ids /\ table["client"][NextFrame("client").id] = c
    BY <2>3, <1>t, ConstantsAssumption DEF Get
  <2>6. NextFrame("client").id = id[c]
    <3>1. id[table["client"][NextFrame("client").id]] = NextFrame("client").id
      BY <2>5, <1>t, ConstantsAssumption DEF MuxInv, Placed
    <3> QED
      BY <3>1, <2>5
  <2>7. link["server"] \in Seq(Frames) /\ 1 \in 1 .. Len(link["server"]) /\ NextFrame("client") = link["server"][1]
    BY <2>4, <1>t, NextIsAFrame DEF MuxInv
  <2>8. 1 \in ends(link["server"], id[c])
    BY <2>4, <2>6, <2>7 DEF ends, isEnd
  <2>9. over(c)
    BY <2>8, <1>t DEF Told
  <2>10. data(link["server"], c) = {}
    <3>1. ASSUME NEW j \in data(link["server"], c) PROVE FALSE
      <4>1. j < 1
        BY <2>8, <1>t DEF Told
      <4>2. j \in Nat /\ j >= 1
        BY <2>7, Positions
      <4> QED
        BY <4>1, <4>2
    <3> QED
      BY <3>1
  <2>11. connected("client", c)
    BY <2>1, <2>5, <2>6, <1>t DEF connected
  <2>12. stretch(link["server"], c, arrived("client", c), sent["server"][c])
    BY <2>11, <1>t DEF MuxInv, Flowing
  <2>13. /\ arrived("client", c) \in Nat /\ arrived("client", c) = Len(got["client"][c])
         /\ sent["server"][c] \in Nat
    <3>1. ~copying("client", c)
      BY <2>4 DEF copying
    <3>2. sent["server"][c] \in Nat
      BY <1>t DEF MuxInv, MuxTypes
    <3> QED
      BY <3>1, <3>2, <1>t, ArrivedIs
  <2>14. arrived("client", c) = sent["server"][c]
    BY <2>10, <2>12, <2>13, StretchEmpty
  <2> QED
    BY <2>4, <2>9, <2>13, <2>14, <1>O
<1> QED
  BY <1>2, <1>3

LEMMA EndSteps == MuxInv /\ EndInv /\ [Next]_vars => EndInv'
<1>1. CASE UNCHANGED vars
  <2>u. UNCHANGED <<count, table, closed, id, sender, sent, waiting, input, output, got, link, receiver, linkUp, done>>
    BY <1>1 DEF vars, tables, flows, worker
  <2> QED
    BY <2>u DEF EndInv, Dated, Answered, asking, Told, Kept, Complete, over, InputOver
<1>2. ASSUME MuxInv, EndInv, Next PROVE EndInv'
  <2>1. Dated' /\ \A c \in Conns : Answered(c)'
    BY <1>2, DatedStep, AnsweredStep
  <2>2. ASSUME NEW c \in Conns, asking(c)' PROVE Told(c)' /\ Kept(c)' /\ Complete(c)'
    <3>1. CASE Asks(c)
      BY <3>1, <1>2, ToldStep, KeptStep, CompleteStep
    <3>2. CASE Allocate(c) /\ ~closed["client"]
      BY <3>2, <1>2, AllocatedStep
    <3> QED
      BY <3>1, <3>2, <2>2, <1>2, WasAsking
  <2> QED
    BY <2>1, <2>2 DEF EndInv
<1> QED
  BY <1>1, <1>2

\* A client that sees the end of an answer while it still asks has the whole
\* answer: the End frame of its session is sent after the last chunk, by the
\* server's sender that found its input over or in reply to what came later.
\* (Until a chunk is torn.)
THEOREM EndsAreClean == Spec => []CleanEnd
<1>1. Init => EndInv
  <2> SUFFICES ASSUME Init PROVE EndInv
    OBVIOUS
  <2>1. /\ count = 0 /\ sender = [x \in Sides |-> [c \in Conns |-> "none"]] /\ "client" \in Sides /\ "server" \in Sides
        /\ link = [x \in Sides |-> <<>>] /\ receiver = [x \in Sides |-> Header]
        /\ output = [x \in Sides |-> [c \in Conns |-> "open"]]
    BY DEF Init, Sides
  <2>2. Dated
    <3>1. \A x \in Sides : receiver[x].id = 0 /\ link[x] = <<>>
      BY <2>1, HeaderIs
    <3>2. \A x \in Sides : \A j \in 1 .. Len(link[x]) : FALSE
      BY <3>1
    <3> QED
      BY <2>1, <3>1, <3>2 DEF Dated
  <2>3. \A c \in Conns : Answered(c) /\ ~asking(c)
    BY <2>1 DEF Answered, asking
  <2> QED
    BY <2>2, <2>3 DEF EndInv
<1>2. EndInv => CleanEnd
  BY DEF EndInv, CleanEnd, asking, Complete, over
<1> QED
  BY <1>1, <1>2, EndSteps, MuxAlways, PTL DEF Spec
=============================================================================
