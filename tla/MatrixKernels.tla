--------------------------- MODULE MatrixKernels ---------------------------
(***************************************************************************)
(* assignment-4/p1: C = A x B for matrices of MATRIX_SIZE rows, a thread   *)
(* for each element of C.  A float is what it was computed from: an        *)
(* element of A or B is its cell, a sum the products added up, in order.   *)
(***************************************************************************)
EXTENDS CudaDevice

MATRIX_SIZE == job.size

A(r, c) == <<"A", r * MATRIX_SIZE + c>>
B(r, c) == <<"B", r * MATRIX_SIZE + c>>
C(r, c) == <<"C", r * MATRIX_SIZE + c>>

Element(c) == Read(c, <<"unwritten", 0>>)

\* What every version is compared with: serial_version of main.c.
serial_version(r, c) ==
    [k \in 1..MATRIX_SIZE |-> <<A(r, k - 1), B(k - 1, c)>>]

Row(b, t) == b[2] * job.block.y + t[2]
Col(b, t) == b[1] * job.block.x + t[1]

\* gridDim of the three hosts.
MatrixGrid == [x |-> MATRIX_SIZE \div job.block.x, y |-> MATRIX_SIZE \div job.block.y]

\* C[row][col] = result
Store(b, t) == Effect({}, Cell(C(Row(b, t), Col(b, t)), result[<<b, t>>]), <<>>)

\* cuda_1: one phase, no shared memory.
MatrixKernel1(b, t) ==
    LET row == Row(b, t)
        col == Col(b, t)
        terms == [k \in 1..MATRIX_SIZE |-> <<A(row, k - 1), B(k - 1, col)>>]
    IN  Effect({}, Cell(C(row, col), terms), <<>>)

\* The phases of cuda_2 and cuda_3: load a tile, add its products, for each
\* tile, and store.
Tiles   == MATRIX_SIZE \div job.block.y
Base(p) == (p \div 2) * job.block.y

Index(x, y) == y * job.block.x + x

\* cuda_2: tiles of B in shared memory.
MatrixKernel2(b, t, p) ==
    LET x == t[1]
        y == t[2]
        row == Row(b, t)
        col == Col(b, t)
        B_shared(i) == Shared(b, i)
        used == {B_shared(Index(x, k)) : k \in 0..(job.block.y - 1)}
    IN  IF p = 2 * Tiles THEN Store(b, t)
        ELSE IF p % 2 = 0
        THEN Effect({}, Cell(B_shared(Index(x, y)), B(Base(p) + y, col)), result[<<b, t>>])
        ELSE Effect(used, Nothing,
                    result[<<b, t>>] \o
                        [k \in 1..job.block.y |->
                            <<A(row, Base(p) + k - 1), Element(B_shared(Index(x, k - 1)))>>])

\* cuda_3: tiles of A and of B in shared memory, one behind the other.  With a
\* wide block the last tile reads past the row of A, in the last row past its
\* end; what is read there is nowhere used, and the fault it may be is left out.
MatrixKernel3(b, t, p) ==
    LET x == t[1]
        y == t[2]
        row == Row(b, t)
        col == Col(b, t)
        A_shared(i) == Shared(b, i)
        B_shared(i) == Shared(b, job.block.y * job.block.x + i)
        used == UNION {{A_shared(Index(k, y)), B_shared(Index(x, k))} :
                           k \in 0..(job.block.y - 1)}
    IN  IF p = 2 * Tiles THEN Store(b, t)
        ELSE IF p % 2 = 0
        THEN Effect({}, Written(Cell(A_shared(Index(x, y)), A(row, Base(p) + x)),
                                Cell(B_shared(Index(x, y)), B(Base(p) + y, col))),
                    result[<<b, t>>])
        ELSE Effect(used, Nothing,
                    result[<<b, t>>] \o
                        [k \in 1..job.block.y |-> <<Element(A_shared(Index(k - 1, y))),
                                                    Element(B_shared(Index(x, k - 1)))>>])
=============================================================================
