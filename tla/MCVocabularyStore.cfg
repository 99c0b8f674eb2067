\* Two artifacts, one with an image, two callers, two faults of any kind.
SPECIFICATION Spec
CONSTANTS
    d1 = d1
    v1 = v1
    n1 = n1
    n2 = n2
    p1 = p1
    p2 = p2
    Id = {d1, v1}
    Images = {d1}
    Name = {n1, n2}
    Proc = {p1, p2}
    None = None
    Free = Free
    MaxFaults = 2
SYMMETRY Symmetry
INVARIANTS
    DescriptorHasBytes
    IndexIsOnDisk
PROPERTIES
    ImplementsArtifactMap
