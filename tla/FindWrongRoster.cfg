\* A faculty member switches between two subjects with one student each.
SPECIFICATION Spec
CONSTANTS
    Subject = {cs, ma}
    Student = {ann, bob}
    None = None
    MaxLoads = 1
INVARIANT OnlyEnrolledMarked
