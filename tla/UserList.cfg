SPECIFICATION Spec
CONSTANTS
    u1 = u1
    u2 = u2
    u3 = u3
    u4 = u4
    Users = {u1, u2, u3, u4}
    Pages <- AnyPage
    Sizes <- AnySize
    DefaultSize = 10
    IntLimit = 16
    MaxWrites = 3
SYMMETRY Symmetric
INVARIANTS TypeOK ReplyAddsUp WalkAddsUp IInv
