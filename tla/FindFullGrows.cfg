\* One administrator lowers the capacity below the enrolment and enrols a class.
SPECIFICATION Spec
CONSTANTS
    s1 = s1
    s2 = s2
    s3 = s3
    s4 = s4
    f1 = f1
    Id <- ClassAndTeacher
    Registered <- Class
    Teacher <- Teachers
    Admin = admin
    Proc = {p1}
    Requests <- Lectures
    Capacities = {1, 2}
    Unlimited = none
    Faults = {}
PROPERTY FullSubjectTakesNobody
