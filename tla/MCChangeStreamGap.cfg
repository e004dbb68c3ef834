SPECIFICATION StreamSpec
CONSTANTS
    Writers = {w1, w2}
    Streams = {c1}
    Page = 2
    MaxSeq = 2
INVARIANT
    NoChangeSkipped
